---- MODULE Spec2Model ----
(***************************************************************************)
(* The RSS event importer (import-rss-events): main, processFeed,          *)
(* processRSSItem and the helpers they await, against the Directus         *)
(* content store.  The importer is one sequential async program; every     *)
(* action below is the segment of code that runs from the return of one    *)
(* awaited call to the issue of the next one.                              *)
(***************************************************************************)
EXTENDS Integers, Sequences, FiniteSets, TLC

(* ------------------------------ bounds --------------------------------- *)

\* number of importer runs (processes started one after the other)
MaxRuns == 2
\* clock readings are 1..MaxTime, event starts are 0..MaxTime
MaxTime == 2

(* --------------------------- JS value model ---------------------------- *)

\* null, undefined and the empty string: the falsy string-like values
Null == ""
\* a null id (Directus ids start at 1)
NoId == 0
\* parseDateTime returned { startDateTime: null, ... }
NoDate == -1

\* a || b
Or(a, b) == IF a # Null THEN a ELSE b

Min(S) == CHOOSE x \in S : \A y \in S : x <= y

(* ------------------------------ inputs --------------------------------- *)

RSS_FEEDS == <<"washington-dc", "maryland", "virginia">>

NumFeeds == Len(RSS_FEEDS)

\* href.includes('lu.ma/')
IsLuma(h) == h \in {"lu.ma/a", "lu.ma/b"}
\* href.includes('meetup.com/') || href.includes('meetu.ps/')
IsMeetup(h) == h \in {"meetup.com/a", "meetu.ps/a"}

\* A feed item together with the event page its link points to:
\*   link      item.link
\*   content   the item has a content:encoded element (item.contentEncoded)
\*   quote     the content has a blockquote with text
\*   start     what parseDateTime resolves from the blockquote's date and
\*             time lines (NoDate: it returns null)
\*   hrefs     the href of every <a> of the content, in document order
\*   web       href of '.single_event_website a' on the event page
\*   imageUrl  src of the first <img>
\*   venueName the venue line of the blockquote
\*   bp        /bitplebs/i.test(item.title)
Bare == [link |-> "u1", content |-> TRUE, quote |-> TRUE, start |-> MaxTime,
         hrefs |-> <<>>, web |-> Null, imageUrl |-> Null, venueName |-> Null, bp |-> FALSE]

Rich == [Bare EXCEPT !.hrefs = <<"meetup.com/a", "lu.ma/a">>, !.web = "web",
                     !.imageUrl = "a.jpg", !.venueName = "hall", !.bp = TRUE]

NoQuote == [Bare EXCEPT !.quote = FALSE, !.start = NoDate]

\* an item without content:encoded
NoContent == [NoQuote EXCEPT !.content = FALSE]

BadDate == [Bare EXCEPT !.start = NoDate, !.hrefs = <<"lu.ma/a">>]

Past == [Rich EXCEPT !.start = 0, !.link = "u2"]

\* items that differ from Bare in one respect
Variants ==
    { [Bare EXCEPT !.hrefs = h, !.web = w] :
        h \in {<<>>, <<"example.org", "meetu.ps/a">>,
               <<"meetup.com/a", "lu.ma/a">>, <<"lu.ma/b", "lu.ma/a">>},
        w \in {Null, "web"} }
    \cup { [Bare EXCEPT !.imageUrl = "a.jpg", !.start = s] : s \in 1..MaxTime }
    \cup { [Bare EXCEPT !.venueName = "hall"], [Bare EXCEPT !.bp = TRUE],
           [Bare EXCEPT !.link = "u2"], Rich, NoQuote, NoContent, BadDate,
           Past }

(* ------------------------------- state --------------------------------- *)

VARIABLES
    feeds,          \* what each feed URL currently serves: <<items>> per feed
    env,            \* process.env: the three token variables
    run,            \* importer runs started so far
    cleanBefore,    \* no call had failed when the current run started
    pc,             \* the call the program is waiting for
    token,          \* DIRECTUS_TOKEN
    exitCode,       \* exit code of the run (NoExit while it is running)
    now,            \* the latest clock reading, dayjs()
    feedIdx,        \* main: index into RSS_FEEDS
    itemIdx,        \* processFeed: index into feed.items
    feedError,      \* processFeed returned a result with .error
    results,        \* processFeed: results
    overall,        \* main: overallResults
    scrapeOut,      \* how scrapeEventRsvpLink ended: error, none or link
    exq,            \* how the existence query ended: failed, found, absent
    existing,       \* processRSSItem: existingEvent (its id)
    imageId,        \* processRSSItem: imageId
    venueId,        \* processRSSItem: venueId
    tagId,          \* processRSSItem: tagId
    updatesNeeded,  \* processRSSItem: Object.keys(updatesNeeded)
    result,         \* what processRSSItem returned
    Events,         \* collection Events: record i has id i
    Venues,         \* collection Venues: names, record i has id i
    Tags,           \* collection tags: names, record i has id i
    Files,          \* the file library: source URLs, file i has id i
    calls,          \* the network calls made so far for the current item
    auth,           \* the bearer values sent with its content-store requests
    fails,          \* the calls that have failed since the item started
    clean,          \* no call has failed since the start
    rejected,       \* the store has rejected an Event create since the start
    attempted,      \* the feeds processFeed was called for in this run
    failedFeeds,    \* the feeds whose fetch failed in this run
    abortedFeeds,   \* the feeds whose item loop ended by an exception
    dateStr,        \* parsed.dateStr: the date line of the blockquote
    timeStr,        \* parsed.timeStr: the text after 'Time:'
    previousOffset, \* dayjs.tz: the zone's UTC offset when the call is made
    dpc,            \* where processRSSItem is with the date of the item
    resolved,       \* what parseDateTime returned
    dateResult,     \* what processRSSItem returned right after it, if it did
    copy,           \* the importer file whose parseDateTime was called
    zone,           \* the time zone of the machine the importer runs on
    cmsEnv,         \* import.meta.env of the site: SSR and the two URLs
    cpc,            \* where the call of a read function is
    fn,             \* the read function called
    slug,           \* its slug argument
    pending,        \* the collection of the request it is waiting for
    requests,       \* the requests it has made
    cmsResult       \* the CmsResult it returned

storeVars == <<Events, Venues, Tags, Files>>
itemVars == <<scrapeOut, exq, existing, imageId, venueId, tagId, updatesNeeded>>
feedVars == <<feedIdx, itemIdx, feedError, results>>
procVars == <<run, cleanBefore, token, exitCode, overall, attempted, failedFeeds,
              abortedFeeds>>
importVars == <<feeds, env, pc, now, result, calls, auth, fails, clean,
                rejected, storeVars, itemVars, feedVars, procVars>>
dateVars == <<dateStr, timeStr, previousOffset, dpc, resolved, dateResult,
              copy, zone>>
cmsVars == <<cmsEnv, cpc, fn, slug, pending, requests, cmsResult>>
vars == <<importVars, dateVars, cmsVars>>

NoExit == -1

Zero == [total |-> 0, created |-> 0, updated |-> 0, skipped |-> 0, failed |-> 0]

NoResult == [status |-> Null, reason |-> Null]

R(status, reason) == [status |-> status, reason |-> reason]

\* the content-store requests among the calls
StoreCalls == {"exists", "upload", "venue_q", "venue_c", "tag_q", "tag_c",
               "patch", "create"}

\* a call of the given kind fails
Failed(kind) ==
    /\ clean' = FALSE
    /\ rejected' = (rejected \/ kind = "create")
    /\ fails' = fails \cup {kind}

\* the item processFeed's loop is at
Item == feeds[feedIdx][itemIdx]

(* --------------------------- pure functions ---------------------------- *)

\* a fallback that starts from the admin token
DIRECTUS_TOKEN_adminFirst(e) == Or(e.admin, Or(e.static, e.events))

\* the three-way fallback that sets DIRECTUS_TOKEN
DIRECTUS_TOKEN(e) == Or(e.events, Or(e.static, e.admin))

\* parseEventDetails: the $('a').each scan, first Luma and first Meetup href
lumaUrl(hrefs) ==
    LET idx == {i \in 1..Len(hrefs) : IsLuma(hrefs[i])}
    IN  IF idx = {} THEN Null ELSE hrefs[Min(idx)]

meetupUrl(hrefs) ==
    LET idx == {i \in 1..Len(hrefs) : IsMeetup(hrefs[i])}
    IN  IF idx = {} THEN Null ELSE hrefs[Min(idx)]

\* a parseEventDetails that does not stop at a missing blockquote
parseEventDetails_lenient(it) ==
    [ok |-> TRUE, start |-> it.start, venueName |-> it.venueName,
     imageUrl |-> it.imageUrl,
     rsvpUrl |-> IF lumaUrl(it.hrefs) # Null THEN lumaUrl(it.hrefs)
                 ELSE IF meetupUrl(it.hrefs) # Null
                      THEN meetupUrl(it.hrefs) ELSE Null]

\* parseEventDetails: null without blockquote text, else the parsed record
parseEventDetails(it) ==
    IF ~it.quote
    THEN [ok |-> FALSE, start |-> NoDate, venueName |-> Null,
          imageUrl |-> Null, rsvpUrl |-> Null]
    ELSE [ok |-> TRUE, start |-> it.start, venueName |-> it.venueName,
          imageUrl |-> it.imageUrl,
          rsvpUrl |-> IF lumaUrl(it.hrefs) # Null THEN lumaUrl(it.hrefs)
                      ELSE IF meetupUrl(it.hrefs) # Null
                           THEN meetupUrl(it.hrefs) ELSE Null]

\* scrapeEventRsvpLink's return value for each way it can end
scraped(out, it) == IF out = "link" THEN it.web ELSE Null

\* the fallback the other way round: parsed.rsvpUrl || scrapedRsvpUrl
rsvpUrlOf_contentFirst(out, it) ==
    Or(parseEventDetails(it).rsvpUrl, scraped(out, it))

\* processRSSItem: scrapedRsvpUrl || parsed.rsvpUrl
rsvpUrlOf(out, it) == Or(scraped(out, it), parseEventDetails(it).rsvpUrl)

\* processRSSItem: rsvpUrl of the current item
rsvpUrl == rsvpUrlOf(scrapeOut, Item)

\* a past check that lets an event through for one more tick
isBefore_late(eventDate, t) == eventDate + 1 < t

\* eventDate.isBefore(now)
isBefore(eventDate, t) == eventDate < t

\* GET items/Events?filter[external_url][_eq]=url&limit=1 : ids of the data
FindEvent(url) ==
    LET m == {i \in 1..Len(Events) : Events[i].external_url = url}
    IN  IF m = {} THEN NoId ELSE Min(m)

\* a name query that is always answered with no record
FindName_none(coll, name) == NoId

\* GET items/<collection>?filter[name][_eq]=name&limit=1
FindName(coll, name) ==
    LET m == {i \in 1..Len(coll) : coll[i] = name}
    IN  IF m = {} THEN NoId ELSE Min(m)

\* processRSSItem, new event: the next call from the image step (stage 1),
\* the venue step (2) or the tag step (3) on
NewFrom(stage, it) ==
    IF stage <= 1 /\ parseEventDetails(it).imageUrl # Null THEN "download"
    ELSE IF stage <= 2 /\ parseEventDetails(it).venueName # Null THEN "venue_q"
    ELSE IF stage <= 3 /\ it.bp THEN "tag_q"
    ELSE "create"

\* processRSSItem, existing event: after the tag check, PATCH or skip
UpdAfterTag(keys) ==
    IF keys # {}
    THEN [pc |-> "patch", keys |-> keys, result |-> NoResult]
    ELSE [pc |-> "tally", keys |-> keys,
          result |-> R("skipped", "already_exists")]

\* an RSVP check that does not look at the stored rsvp_url
UpdAfterImage_anyRsvp(keys, it, ev, rsvp) ==
    LET k2 == keys \cup (IF rsvp # Null THEN {"rsvp_url"} ELSE {})
    IN  IF it.bp /\ ev.tags = NoId
        THEN [pc |-> "tag_q", keys |-> k2, result |-> NoResult]
        ELSE UpdAfterTag(k2)

\* processRSSItem, existing event: the RSVP check and the tag check
UpdAfterImage(keys, it, ev, rsvp) ==
    LET k2 == keys \cup (IF ev.rsvp_url = Null /\ rsvp # Null
                         THEN {"rsvp_url"} ELSE {})
    IN  IF it.bp /\ ev.tags = NoId
        THEN [pc |-> "tag_q", keys |-> k2, result |-> NoResult]
        ELSE UpdAfterTag(k2)

\* an image check that does not look at the stored image
UpdAfterFound_anyImage(it, ev, rsvp) ==
    IF parseEventDetails(it).imageUrl # Null
    THEN [pc |-> "download", keys |-> {}, result |-> NoResult]
    ELSE UpdAfterImage({}, it, ev, rsvp)

\* processRSSItem, existing event: the image check
UpdAfterFound(it, ev, rsvp) ==
    IF ev.image = NoId /\ parseEventDetails(it).imageUrl # Null
    THEN [pc |-> "download", keys |-> {}, result |-> NoResult]
    ELSE UpdAfterImage({}, it, ev, rsvp)

NoEvent == [external_url |-> Null, image |-> NoId, rsvp_url |-> Null,
            tags |-> NoId, location |-> NoId, start |-> NoDate]

\* existingEvent
Ev == IF existing # NoId THEN Events[existing] ELSE NoEvent

\* what follows downloadAndUploadImage on either path
ContImage(keys) ==
    IF existing = NoId
    THEN [pc |-> NewFrom(2, Item), keys |-> {}, result |-> NoResult]
    ELSE UpdAfterImage(keys, Item, Ev, rsvpUrl)

\* what follows findOrCreateTag on either path
ContTag(keys) ==
    IF existing = NoId
    THEN [pc |-> "create", keys |-> {}, result |-> NoResult]
    ELSE UpdAfterTag(keys)

\* eventData, as far as the importer reads it back
eventData(it, rsvp, image, venue, tag) ==
    [external_url |-> it.link, image |-> image, rsvp_url |-> rsvp,
     tags |-> tag, location |-> venue, start |-> parseEventDetails(it).start]

\* a PATCH that sends image, rsvp_url and tags whatever the patch holds
Patched_allThree(ev, keys, image, rsvp, tag) ==
    [ev EXCEPT !.image = image, !.rsvp_url = rsvp, !.tags = tag]

\* PATCH items/Events/<id> with updatesNeeded
Patched(ev, keys, image, rsvp, tag) ==
    [ev EXCEPT !.image = IF "image" \in keys THEN image ELSE @,
               !.rsvp_url = IF "rsvp_url" \in keys THEN rsvp ELSE @,
               !.tags = IF "tags" \in keys THEN tag ELSE @]

\* a tally that counts a failed item as skipped
Count_failedAsSkipped(res, r) ==
    IF r.status = "created" THEN [res EXCEPT !.created = @ + 1]
    ELSE IF r.status = "updated" THEN [res EXCEPT !.updated = @ + 1]
    ELSE IF r.status \in {"skipped", "failed"} THEN [res EXCEPT !.skipped = @ + 1]
    ELSE res

\* processFeed: the counter a result increments
Count(res, r) ==
    IF r.status = "created" THEN [res EXCEPT !.created = @ + 1]
    ELSE IF r.status = "updated" THEN [res EXCEPT !.updated = @ + 1]
    ELSE IF r.status = "skipped" THEN [res EXCEPT !.skipped = @ + 1]
    ELSE IF r.status = "failed" THEN [res EXCEPT !.failed = @ + 1]
    ELSE res

\* a sum that leaves the failed counter out
Add_withoutFailed(o, r) ==
    [total |-> o.total + r.total, created |-> o.created + r.created,
     updated |-> o.updated + r.updated, skipped |-> o.skipped + r.skipped,
     failed |-> o.failed]

\* main: overallResults += results
Add(o, r) ==
    [total |-> o.total + r.total, created |-> o.created + r.created,
     updated |-> o.updated + r.updated, skipped |-> o.skipped + r.skipped,
     failed |-> o.failed + r.failed]

(* ------------------------------ actions -------------------------------- *)

\* a main without the token check
Main_noTokenCheck ==
    /\ UNCHANGED <<dateVars, cmsVars>>
    /\ pc \in {"idle", "exited"}
    /\ run < MaxRuns
    /\ run' = run + 1
    /\ cleanBefore' = clean
    /\ token' = DIRECTUS_TOKEN(env)
    /\ pc' = "parseURL"
    /\ exitCode' = NoExit
    /\ overall' = Zero
    /\ attempted' = {}
    /\ failedFeeds' = {}
    /\ abortedFeeds' = {}
    /\ feedIdx' = 1
    /\ itemIdx' = 0
    /\ feedError' = FALSE
    /\ results' = Zero
    /\ result' = NoResult
    /\ calls' = {}
    /\ auth' = {}
    /\ fails' = {}
    /\ scrapeOut' = Null
    /\ exq' = Null
    /\ existing' = NoId
    /\ imageId' = NoId
    /\ venueId' = NoId
    /\ tagId' = NoId
    /\ updatesNeeded' = {}
    /\ UNCHANGED <<feeds, env, now, clean, rejected, storeVars>>

\* main, up to the first processFeed: a new process with fresh locals, the
\* token check and exit(1)
Main ==
    /\ UNCHANGED <<dateVars, cmsVars>>
    /\ pc \in {"idle", "exited"}
    /\ run < MaxRuns
    /\ run' = run + 1
    /\ cleanBefore' = clean
    /\ token' = DIRECTUS_TOKEN(env)
    /\ IF token' = Null
       THEN /\ pc' = "exited"
            /\ exitCode' = 1
       ELSE /\ pc' = "parseURL"
            /\ exitCode' = NoExit
    /\ overall' = Zero
    /\ attempted' = {}
    /\ failedFeeds' = {}
    /\ abortedFeeds' = {}
    /\ feedIdx' = 1
    /\ itemIdx' = 0
    /\ feedError' = FALSE
    /\ results' = Zero
    /\ result' = NoResult
    /\ calls' = {}
    /\ auth' = {}
    /\ fails' = {}
    /\ scrapeOut' = Null
    /\ exq' = Null
    /\ existing' = NoId
    /\ imageId' = NoId
    /\ venueId' = NoId
    /\ tagId' = NoId
    /\ updatesNeeded' = {}
    /\ UNCHANGED <<feeds, env, now, clean, rejected, storeVars>>

\* a processFeed whose catch returns the results of the feed before
ParseURL_stale ==
    /\ UNCHANGED <<dateVars, cmsVars>>
    /\ pc = "parseURL"
    /\ attempted' = attempted \cup {feedIdx}
    /\ \E ok \in BOOLEAN :
         IF ok
         THEN /\ results' = [Zero EXCEPT !.total = Len(feeds[feedIdx])]
              /\ feedError' = FALSE
              /\ itemIdx' = IF Len(feeds[feedIdx]) = 0 THEN 0 ELSE 1
              /\ pc' = IF Len(feeds[feedIdx]) = 0 THEN "feedret" ELSE "item"
              /\ UNCHANGED <<clean, rejected, fails, failedFeeds>>
         ELSE /\ results' = results
              /\ feedError' = TRUE
              /\ itemIdx' = 0
              /\ pc' = "feedret"
              /\ failedFeeds' = failedFeeds \cup {feedIdx}
              /\ Failed("parseURL")
    /\ UNCHANGED <<feeds, env, now, result, calls, auth, storeVars, itemVars,
                   feedIdx, run, cleanBefore, token, exitCode,
                   overall, abortedFeeds>>

\* processFeed: parser.parseURL returns or throws
ParseURL ==
    /\ UNCHANGED <<dateVars, cmsVars>>
    /\ pc = "parseURL"
    /\ attempted' = attempted \cup {feedIdx}
    /\ \E ok \in BOOLEAN :
         IF ok
         THEN /\ results' = [Zero EXCEPT !.total = Len(feeds[feedIdx])]
              /\ feedError' = FALSE
              /\ itemIdx' = IF Len(feeds[feedIdx]) = 0 THEN 0 ELSE 1
              /\ pc' = IF Len(feeds[feedIdx]) = 0 THEN "feedret" ELSE "item"
              /\ UNCHANGED <<clean, rejected, fails, failedFeeds>>
         ELSE /\ results' = Zero
              /\ feedError' = TRUE
              /\ itemIdx' = 0
              /\ pc' = "feedret"
              /\ failedFeeds' = failedFeeds \cup {feedIdx}
              /\ Failed("parseURL")
    /\ UNCHANGED <<feeds, env, now, result, calls, auth, storeVars, itemVars,
                   feedIdx, run, cleanBefore, token, exitCode,
                   overall, abortedFeeds>>

\* a processRSSItem that resolves the date before it fetches the page
ProcessItem_dateFirst ==
    /\ UNCHANGED <<dateVars, cmsVars>>
    /\ pc = "item"
    /\ calls' = {}
    /\ auth' = {}
    /\ fails' = {}
    /\ scrapeOut' = Null
    /\ exq' = Null
    /\ existing' = NoId
    /\ imageId' = NoId
    /\ venueId' = NoId
    /\ tagId' = NoId
    /\ updatesNeeded' = {}
    /\ IF ~Item.content
       THEN /\ result' = NoResult
            /\ pc' = "feedret"
            /\ results' = Zero
            /\ feedError' = TRUE
            /\ abortedFeeds' = abortedFeeds \cup {feedIdx}
       ELSE /\ IF ~parseEventDetails(Item).ok
               THEN /\ result' = R("failed", "parse_error")
                    /\ pc' = "tally"
               ELSE IF parseEventDetails(Item).start = NoDate
               THEN /\ result' = R("failed", "date_parse_error")
                    /\ pc' = "tally"
               ELSE /\ result' = NoResult
                    /\ pc' = "scrape"
            /\ UNCHANGED <<results, feedError, abortedFeeds>>
    /\ UNCHANGED <<feeds, env, now, clean, rejected, storeVars, feedIdx, itemIdx,
                   run, cleanBefore, token, exitCode,
                   overall, attempted, failedFeeds>>

\* processRSSItem, up to the page fetch: parseEventDetails.  cheerio.load
\* throws on a content that is not a string; nothing in processRSSItem
\* catches it, so it ends processFeed's loop in processFeed's catch.
ProcessItem ==
    /\ UNCHANGED <<dateVars, cmsVars>>
    /\ pc = "item"
    /\ calls' = {}
    /\ auth' = {}
    /\ fails' = {}
    /\ scrapeOut' = Null
    /\ exq' = Null
    /\ existing' = NoId
    /\ imageId' = NoId
    /\ venueId' = NoId
    /\ tagId' = NoId
    /\ updatesNeeded' = {}
    /\ IF ~Item.content
       THEN /\ result' = NoResult
            /\ pc' = "feedret"
            /\ results' = Zero
            /\ feedError' = TRUE
            /\ abortedFeeds' = abortedFeeds \cup {feedIdx}
       ELSE /\ IF ~parseEventDetails(Item).ok
               THEN /\ result' = R("failed", "parse_error")
                    /\ pc' = "tally"
               ELSE /\ result' = NoResult
                    /\ pc' = "scrape"
            /\ UNCHANGED <<results, feedError, abortedFeeds>>
    /\ UNCHANGED <<feeds, env, now, clean, rejected, storeVars, feedIdx, itemIdx,
                   run, cleanBefore, token, exitCode,
                   overall, attempted, failedFeeds>>

\* processRSSItem, from the page fetch to the existence query:
\* scrapeEventRsvpLink ends, parseDateTime, the past check
ScrapeReturn ==
    /\ UNCHANGED <<dateVars, cmsVars>>
    /\ pc = "scrape"
    /\ calls' = calls \cup {"scrape"}
    /\ auth' = auth
    /\ \E out \in {"error", IF Item.web # Null THEN "link" ELSE "none"} :
         /\ scrapeOut' = out
         /\ IF out = "error" THEN Failed("scrape")
            ELSE UNCHANGED <<clean, rejected, fails>>
    /\ IF parseEventDetails(Item).start = NoDate
       THEN /\ result' = R("failed", "date_parse_error")
            /\ pc' = "tally"
            /\ now' = now
       ELSE \E t \in now..MaxTime :
              /\ now' = t
              /\ IF isBefore(parseEventDetails(Item).start, t)
                 THEN /\ result' = R("skipped", "past_event")
                      /\ pc' = "tally"
                 ELSE /\ result' = NoResult
                      /\ pc' = "exists"
    /\ UNCHANGED <<feeds, env, storeVars, exq, existing, imageId, venueId,
                   tagId, updatesNeeded, feedVars, procVars>>

\* processRSSItem: the existence query returns or throws
ExistsReturn ==
    /\ UNCHANGED <<dateVars, cmsVars>>
    /\ pc = "exists"
    /\ calls' = calls \cup {"exists"}
    /\ auth' = auth \cup {token}
    /\ \E ok \in BOOLEAN :
         IF ok /\ FindEvent(Item.link) # NoId
         THEN LET c == UpdAfterFound(Item, Events[FindEvent(Item.link)], rsvpUrl)
              IN  /\ exq' = "found"
                  /\ existing' = FindEvent(Item.link)
                  /\ pc' = c.pc
                  /\ updatesNeeded' = c.keys
                  /\ result' = c.result
                  /\ UNCHANGED <<clean, rejected, fails>>
         ELSE /\ exq' = IF ok THEN "absent" ELSE "failed"
              /\ IF ok THEN UNCHANGED <<clean, rejected, fails>>
                 ELSE Failed("exists")
              /\ existing' = NoId
              /\ pc' = NewFrom(1, Item)
              /\ UNCHANGED <<updatesNeeded, result>>
    /\ UNCHANGED <<feeds, env, now, storeVars, scrapeOut, imageId, venueId,
                   tagId, feedVars, procVars>>

\* downloadAndUploadImage: the image fetch returns, fails or is not ok
DownloadReturn ==
    /\ UNCHANGED <<dateVars, cmsVars>>
    /\ pc = "download"
    /\ calls' = calls \cup {"download"}
    /\ auth' = auth
    /\ \E ok \in BOOLEAN :
         IF ok
         THEN /\ pc' = "upload"
              /\ UNCHANGED <<clean, rejected, fails, updatesNeeded, result>>
         ELSE /\ Failed("download")
              /\ pc' = ContImage(updatesNeeded).pc
              /\ updatesNeeded' = ContImage(updatesNeeded).keys
              /\ result' = ContImage(updatesNeeded).result
    /\ UNCHANGED <<feeds, env, now, storeVars, scrapeOut, exq, existing,
                   imageId, venueId, tagId, feedVars, procVars>>

\* downloadAndUploadImage: POST files returns or fails
UploadReturn ==
    /\ UNCHANGED <<dateVars, cmsVars>>
    /\ pc = "upload"
    /\ calls' = calls \cup {"upload"}
    /\ auth' = auth \cup {token}
    /\ \E ok \in BOOLEAN :
         IF ok
         THEN LET c == ContImage(IF existing = NoId THEN {} ELSE {"image"})
              IN  /\ Files' = Append(Files, parseEventDetails(Item).imageUrl)
                  /\ imageId' = Len(Files) + 1
                  /\ pc' = c.pc
                  /\ updatesNeeded' = c.keys
                  /\ result' = c.result
                  /\ UNCHANGED <<clean, rejected, fails>>
         ELSE /\ Failed("upload")
              /\ pc' = ContImage(updatesNeeded).pc
              /\ updatesNeeded' = ContImage(updatesNeeded).keys
              /\ result' = ContImage(updatesNeeded).result
              /\ UNCHANGED <<Files, imageId>>
    /\ UNCHANGED <<feeds, env, now, Events, Venues, Tags, scrapeOut, exq,
                   existing, venueId, tagId, feedVars, procVars>>

\* a venue lookup whose failure fails the item
VenueLookupReturn_fatal ==
    /\ UNCHANGED <<dateVars, cmsVars>>
    /\ pc = "venue_q"
    /\ calls' = calls \cup {"venue_q"}
    /\ auth' = auth \cup {token}
    /\ \E ok \in BOOLEAN :
         IF ~ok
         THEN /\ Failed("venue_q")
              /\ pc' = "tally"
              /\ result' = R("failed", "venue_error")
              /\ UNCHANGED venueId
         ELSE /\ UNCHANGED <<clean, rejected, fails, result>>
              /\ venueId' = FindName(Venues, Item.venueName)
              /\ pc' = IF venueId' # NoId THEN NewFrom(3, Item) ELSE "venue_c"
    /\ UNCHANGED <<feeds, env, now, storeVars, scrapeOut, exq, existing,
                   imageId, tagId, updatesNeeded, feedVars, procVars>>

\* a venue lookup whose failure is taken for 'no such venue'
VenueLookupReturn_createOnError ==
    /\ UNCHANGED <<dateVars, cmsVars>>
    /\ pc = "venue_q"
    /\ calls' = calls \cup {"venue_q"}
    /\ auth' = auth \cup {token}
    /\ \E ok \in BOOLEAN :
         IF ~ok
         THEN /\ Failed("venue_q")
              /\ pc' = "venue_c"
              /\ UNCHANGED venueId
         ELSE /\ UNCHANGED <<clean, rejected, fails>>
              /\ venueId' = FindName(Venues, Item.venueName)
              /\ pc' = IF venueId' # NoId THEN NewFrom(3, Item) ELSE "venue_c"
    /\ UNCHANGED <<feeds, env, now, result, storeVars, scrapeOut, exq, existing,
                   imageId, tagId, updatesNeeded, feedVars, procVars>>

\* findOrCreateVenue: the lookup returns or throws
VenueLookupReturn ==
    /\ UNCHANGED <<dateVars, cmsVars>>
    /\ pc = "venue_q"
    /\ calls' = calls \cup {"venue_q"}
    /\ auth' = auth \cup {token}
    /\ \E ok \in BOOLEAN :
         IF ~ok
         THEN /\ Failed("venue_q")
              /\ pc' = NewFrom(3, Item)
              /\ UNCHANGED venueId
         ELSE /\ UNCHANGED <<clean, rejected, fails>>
              /\ venueId' = FindName(Venues, Item.venueName)
              /\ pc' = IF venueId' # NoId THEN NewFrom(3, Item) ELSE "venue_c"
    /\ UNCHANGED <<feeds, env, now, result, storeVars, scrapeOut, exq, existing,
                   imageId, tagId, updatesNeeded, feedVars, procVars>>

\* findOrCreateVenue: POST items/Venues returns or throws
VenueCreateReturn ==
    /\ UNCHANGED <<dateVars, cmsVars>>
    /\ pc = "venue_c"
    /\ calls' = calls \cup {"venue_c"}
    /\ auth' = auth \cup {token}
    /\ \E ok \in BOOLEAN :
         IF ok
         THEN /\ Venues' = Append(Venues, Item.venueName)
              /\ venueId' = Len(Venues) + 1
              /\ UNCHANGED <<clean, rejected, fails>>
         ELSE /\ Failed("venue_c")
              /\ UNCHANGED <<Venues, venueId>>
    /\ pc' = NewFrom(3, Item)
    /\ UNCHANGED <<feeds, env, now, result, Events, Tags, Files, scrapeOut, exq,
                   existing, imageId, tagId, updatesNeeded, feedVars, procVars>>

\* findOrCreateTag('bitplebs'): the lookup returns or throws
TagLookupReturn ==
    /\ UNCHANGED <<dateVars, cmsVars>>
    /\ pc = "tag_q"
    /\ calls' = calls \cup {"tag_q"}
    /\ auth' = auth \cup {token}
    /\ \E ok \in BOOLEAN :
         IF ~ok
         THEN /\ Failed("tag_q")
              /\ pc' = ContTag(updatesNeeded).pc
              /\ updatesNeeded' = ContTag(updatesNeeded).keys
              /\ result' = ContTag(updatesNeeded).result
              /\ UNCHANGED tagId
         ELSE IF FindName(Tags, "bitplebs") # NoId
         THEN LET c == ContTag(updatesNeeded \cup {"tags"})
              IN  /\ tagId' = FindName(Tags, "bitplebs")
                  /\ pc' = c.pc
                  /\ updatesNeeded' = c.keys
                  /\ result' = c.result
                  /\ UNCHANGED <<clean, rejected, fails>>
         ELSE /\ pc' = "tag_c"
              /\ UNCHANGED <<clean, rejected, fails, tagId, updatesNeeded, result>>
    /\ UNCHANGED <<feeds, env, now, storeVars, scrapeOut, exq, existing,
                   imageId, venueId, feedVars, procVars>>

\* findOrCreateTag('bitplebs'): POST items/tags returns or throws
TagCreateReturn ==
    /\ UNCHANGED <<dateVars, cmsVars>>
    /\ pc = "tag_c"
    /\ calls' = calls \cup {"tag_c"}
    /\ auth' = auth \cup {token}
    /\ \E ok \in BOOLEAN :
         IF ok
         THEN LET c == ContTag(updatesNeeded \cup {"tags"})
              IN  /\ Tags' = Append(Tags, "bitplebs")
                  /\ tagId' = Len(Tags) + 1
                  /\ pc' = c.pc
                  /\ updatesNeeded' = c.keys
                  /\ result' = c.result
                  /\ UNCHANGED <<clean, rejected, fails>>
         ELSE /\ Failed("tag_c")
              /\ pc' = ContTag(updatesNeeded).pc
              /\ updatesNeeded' = ContTag(updatesNeeded).keys
              /\ result' = ContTag(updatesNeeded).result
              /\ UNCHANGED <<Tags, tagId>>
    /\ UNCHANGED <<feeds, env, now, Events, Venues, Files, scrapeOut, exq,
                   existing, imageId, venueId, feedVars, procVars>>

\* an update whose rejection fails the item
PatchReturn_escalate ==
    /\ UNCHANGED <<dateVars, cmsVars>>
    /\ pc = "patch"
    /\ calls' = calls \cup {"patch"}
    /\ auth' = auth \cup {token}
    /\ \E ok \in BOOLEAN :
         IF ok
         THEN /\ Events' = [Events EXCEPT ![existing] =
                    Patched(@, updatesNeeded, imageId, rsvpUrl, tagId)]
              /\ result' = R("updated", "fields_updated")
              /\ UNCHANGED <<clean, rejected, fails>>
         ELSE /\ Failed("patch")
              /\ result' = R("failed", "update_error")
              /\ UNCHANGED Events
    /\ pc' = "tally"
    /\ UNCHANGED <<feeds, env, now, Venues, Tags, Files, itemVars, feedVars,
                   procVars>>

\* processRSSItem: PATCH items/Events/<id> returns or throws
PatchReturn ==
    /\ UNCHANGED <<dateVars, cmsVars>>
    /\ pc = "patch"
    /\ calls' = calls \cup {"patch"}
    /\ auth' = auth \cup {token}
    /\ \E ok \in BOOLEAN :
         IF ok
         THEN /\ Events' = [Events EXCEPT ![existing] =
                    Patched(@, updatesNeeded, imageId, rsvpUrl, tagId)]
              /\ result' = R("updated", "fields_updated")
              /\ UNCHANGED <<clean, rejected, fails>>
         ELSE /\ Failed("patch")
              /\ result' = R("skipped", "already_exists")
              /\ UNCHANGED Events
    /\ pc' = "tally"
    /\ UNCHANGED <<feeds, env, now, Venues, Tags, Files, itemVars, feedVars,
                   procVars>>

\* processRSSItem: POST items/Events returns or throws
CreateReturn ==
    /\ UNCHANGED <<dateVars, cmsVars>>
    /\ pc = "create"
    /\ calls' = calls \cup {"create"}
    /\ auth' = auth \cup {token}
    /\ \E ok \in BOOLEAN :
         IF ok
         THEN /\ Events' = Append(Events,
                    eventData(Item, rsvpUrl, imageId, venueId, tagId))
              /\ result' = R("created", Null)
              /\ UNCHANGED <<clean, rejected, fails>>
         ELSE /\ Failed("create")
              /\ result' = R("failed", "create_error")
              /\ UNCHANGED Events
    /\ pc' = "tally"
    /\ UNCHANGED <<feeds, env, now, Venues, Tags, Files, itemVars, feedVars,
                   procVars>>

\* processFeed: processRSSItem has returned (its locals are gone), the
\* result is counted, the 500 ms timer is set and the function waits for it
Tally ==
    /\ UNCHANGED <<dateVars, cmsVars>>
    /\ pc = "tally"
    /\ results' = Count(results, result)
    /\ pc' = "delay"
    /\ calls' = {}
    /\ auth' = {}
    /\ fails' = {}
    /\ scrapeOut' = Null
    /\ exq' = Null
    /\ existing' = NoId
    /\ imageId' = NoId
    /\ venueId' = NoId
    /\ tagId' = NoId
    /\ updatesNeeded' = {}
    /\ UNCHANGED <<feeds, env, now, result, clean, rejected, storeVars, feedIdx,
                   itemIdx, feedError, procVars>>

\* a loop that goes from any item straight to the last one
DelayReturn_skip ==
    /\ UNCHANGED <<dateVars, cmsVars>>
    /\ pc = "delay"
    /\ IF itemIdx < Len(feeds[feedIdx])
       THEN /\ itemIdx' = Len(feeds[feedIdx])
            /\ pc' = "item"
       ELSE /\ itemIdx' = itemIdx
            /\ pc' = "feedret"
    /\ result' = NoResult
    /\ UNCHANGED <<feeds, env, now, calls, auth, fails, clean, rejected,
                   storeVars, itemVars, feedIdx, feedError, results, procVars>>

\* processFeed: the timer has fired; the loop goes on to the next item, or
\* ends, the feed results are logged and returned
DelayReturn ==
    /\ UNCHANGED <<dateVars, cmsVars>>
    /\ pc = "delay"
    /\ IF itemIdx < Len(feeds[feedIdx])
       THEN /\ itemIdx' = itemIdx + 1
            /\ pc' = "item"
       ELSE /\ itemIdx' = itemIdx
            /\ pc' = "feedret"
    /\ result' = NoResult
    /\ UNCHANGED <<feeds, env, now, calls, auth, fails, clean, rejected,
                   storeVars, itemVars, feedIdx, feedError, results, procVars>>

\* main: processFeed returned, its results are added, the next feed
FeedReturn ==
    /\ UNCHANGED <<dateVars, cmsVars>>
    /\ pc = "feedret"
    /\ overall' = Add(overall, results)
    /\ IF feedIdx < NumFeeds
       THEN /\ feedIdx' = feedIdx + 1
            /\ pc' = "parseURL"
       ELSE /\ feedIdx' = feedIdx
            /\ pc' = "summary"
    /\ UNCHANGED <<feeds, env, now, result, calls, auth, fails, clean, rejected,
                   storeVars, itemVars, itemIdx, feedError, results, run,
                   cleanBefore, token, exitCode,
                   attempted, failedFeeds, abortedFeeds>>

\* a main that exits with 1 when an item has failed
Summary_failOnFailed ==
    /\ UNCHANGED <<dateVars, cmsVars>>
    /\ pc = "summary"
    /\ pc' = "exited"
    /\ exitCode' = IF overall.failed > 0 THEN 1 ELSE 0
    /\ UNCHANGED <<feeds, env, now, result, calls, auth, fails, clean, rejected,
                   storeVars, itemVars, feedVars, run, cleanBefore, token, overall,
                   attempted,
                   failedFeeds, abortedFeeds>>

\* main: the overall results are logged and the process ends
Summary ==
    /\ UNCHANGED <<dateVars, cmsVars>>
    /\ pc = "summary"
    /\ pc' = "exited"
    /\ exitCode' = 0
    /\ UNCHANGED <<feeds, env, now, result, calls, auth, fails, clean, rejected,
                   storeVars, itemVars, feedVars, run, cleanBefore, token, overall,
                   attempted,
                   failedFeeds, abortedFeeds>>

\* the steps of a run once it has started
Step ==
    \/ ParseURL
    \/ ProcessItem
    \/ ScrapeReturn
    \/ ExistsReturn
    \/ DownloadReturn
    \/ UploadReturn
    \/ VenueLookupReturn
    \/ VenueCreateReturn
    \/ TagLookupReturn
    \/ TagCreateReturn
    \/ PatchReturn
    \/ CreateReturn
    \/ Tally
    \/ DelayReturn
    \/ FeedReturn
    \/ Summary

Next == Main \/ Step

(* ------------------------ the date/time resolver ----------------------- *)

\* The two texts are held by their lexical parts.  A date text is
\*   form   "strict"     Weekday, Month D, YYYY
\*          "noComma"    Weekday Month D, YYYY
\*          "noWeekday"  Month D, YYYY
\*          "numeric"    Weekday, M/D/YYYY
\*          "missing"    null
\* with its month word, day number and year number.  A time text is
\*   kind   "range"      <start><dash><end>, with any text after it
\*          "single"     one time and no second one
\*          "missing"    null
\* where a time is h:mm, sp spaces, and an AM/PM marker, and dash names the
\* character between the two times.
NoClock == [h |-> 0, m |-> 0, sp |-> 0, ap |-> Null]

NoText == [form |-> "missing", month |-> Null, day |-> 0, year |-> 0]

NoTime == [kind |-> "missing", s |-> NoClock, e |-> NoClock, dash |-> Null]

\* a null startDateTime or endDateTime
NoStamp == [year |-> 0, month |-> 0, day |-> 0, hour |-> 0, minute |-> 0]

\* the timestamp text YYYY-MM-DDTHH:mm:00
Stamp(y, mo, d, h, mi) ==
    [year |-> y, month |-> mo, day |-> d, hour |-> h, minute |-> mi]

monthNames == <<"January", "February", "March", "April", "May", "June",
                "July", "August", "September", "October", "November",
                "December">>

\* Array.prototype.indexOf: zero-based, -1 when absent
indexOf(seq, x) ==
    IF \E i \in 1..Len(seq) : seq[i] = x
    THEN Min({i \in 1..Len(seq) : seq[i] = x}) - 1
    ELSE 0 - 1

\* String.prototype.toUpperCase on a marker
toUpperCase(ap) ==
    IF ap = "am" THEN "AM" ELSE IF ap = "pm" THEN "PM" ELSE ap

\* the characters of the class between the two times of the time-range
\* pattern, as the bytes of the source file spell it: U+00E2, U+20AC,
\* U+201D, U+00E2, U+20AC, U+201C and the hyphen
DashClass == {"U+00E2", "U+20AC", "U+201D", "U+201C", "-"}

\* timeStr.match(/(\d+:\d+\s*[AP]M)\s*[...]\s*(\d+:\d+\s*[AP]M)/i): the
\* two groups, or none
timeMatch(t) ==
    IF t.kind = "range" /\ t.dash \in DashClass THEN <<t.s, t.e>> ELSE <<>>

\* time.replace(/(\d)([AP]M)/i, '$1 $2')
spaced(c) == [c EXCEPT !.sp = IF @ = 0 THEN 1 ELSE @]

\* dateTimePattern on `${dateStr} ${time}`
strictMatch(d, c) == d.form = "strict" /\ c.sp >= 1

\* lenientPattern on the same string
lenientMatch(d, c) == d.form \in {"strict", "noComma", "noWeekday"} /\ c.sp >= 1

\* parseComponents: ok is FALSE where it throws
parseComponents(d, c) ==
    LET month == indexOf(monthNames, d.month)
        ampm == toUpperCase(c.ap)
        hour == IF ampm = "PM" /\ c.h # 12 THEN c.h + 12
                ELSE IF ampm = "AM" /\ c.h = 12 THEN 0
                ELSE c.h
    IN  [ok |-> month # 0 - 1, year |-> d.year, month |-> month, day |-> d.day,
         hour |-> hour, minute |-> c.m]

\* const x = v; F(x): v is evaluated once
With(v, F(_)) == CHOOSE r \in {F(x) : x \in {v}} : TRUE

\* days from 1970-01-01 to the civil date y-m-d of the Gregorian calendar
DaysFromCivil(y, m, d) ==
    With(IF m <= 2 THEN y - 1 ELSE y, LAMBDA yy :
    With(yy - (yy \div 400) * 400, LAMBDA yoe :
        (yy \div 400) * 146097 + yoe * 365 + yoe \div 4 - yoe \div 100
          + (153 * (IF m > 2 THEN m - 3 ELSE m + 9) + 2) \div 5 + d - 1
          - 719468))

\* the civil date and time of a timestamp (minutes since 1970-01-01T00:00)
CivilFromMinutes(ts) ==
    With(ts \div 1440 + 719468, LAMBDA z :
    With(z - (z \div 146097) * 146097, LAMBDA doe :
    With((doe - doe \div 1460 + doe \div 36524 - doe \div 146096) \div 365,
         LAMBDA yoe :
    With(doe - (365 * yoe + yoe \div 4 - yoe \div 100), LAMBDA doy :
    With((5 * doy + 2) \div 153, LAMBDA mp :
    With(IF mp < 10 THEN mp + 3 ELSE mp - 9, LAMBDA m :
        [year |-> yoe + (z \div 146097) * 400 + (IF m <= 2 THEN 1 ELSE 0),
         month |-> m,
         day |-> doy - (153 * mp + 2) \div 5 + 1,
         hour |-> (ts % 1440) \div 60,
         minute |-> ts % 60]))))))

\* Date.UTC(y, M, d, h, m) in minutes, M zero-based: a day, hour or minute
\* beyond its range runs over into the next month, day or hour
DateUTC(y, M, d, h, mi) ==
    (DaysFromCivil(y, M + 1, 1) + d - 1) * 1440 + h * 60 + mi

\* the first Sunday of month mo of year y on or after day d0 (1970-01-01
\* was a Thursday)
SundayFrom(y, mo, d0) ==
    With(DaysFromCivil(y, mo, d0), LAMBDA n : d0 + ((7 - ((n + 4) % 7)) % 7))

\* dayjs timezone plugin, tzOffset(timestamp, 'America/New_York'): minus
\* 240 from the second Sunday of March 07:00 UTC to the first Sunday of
\* November 06:00 UTC, minus 300 otherwise
tzOffset(ts) ==
    With(CivilFromMinutes(ts).year, LAMBDA y :
        IF DateUTC(y, 2, SundayFrom(y, 3, 8), 7, 0) <= ts
             /\ ts < DateUTC(y, 10, SundayFrom(y, 11, 1), 6, 0)
        THEN 0 - 240 ELSE 0 - 300)

\* dayjs timezone plugin, fixOffset(localTS, o0, tz): the timestamp and the
\* offset of the local time, moved out of the hour that a change to summer
\* time leaves out
fixOffset(localTS, o0) ==
    With(localTS - o0, LAMBDA utcGuess :
    With(tzOffset(utcGuess), LAMBDA o2 :
        IF o0 = o2 THEN <<utcGuess, o0>>
        ELSE With(utcGuess - (o2 - o0), LAMBDA utcGuess2 :
             With(tzOffset(utcGuess2), LAMBDA o3 :
                 IF o2 = o3 THEN <<utcGuess2, o2>>
                 ELSE <<localTS - (IF o2 < o3 THEN o2 ELSE o3),
                        IF o2 < o3 THEN o3 ELSE o2>>))))

\* dayjs.tz(iso, 'YYYY-MM-DDTHH:mm:ss', 'America/New_York') followed by
\* .format('YYYY-MM-DDTHH:mm:ss'): the format is not strict, so the text is
\* read by Date.UTC; a year of fewer than four digits does not parse, a
\* day 0 is read as day 1
tzFormat(c, o0) ==
    IF c.year < 1000 THEN NoStamp
    ELSE With(DateUTC(c.year, c.month, IF c.day = 0 THEN 1 ELSE c.day,
                      c.hour, c.minute), LAMBDA localTS :
         With(fixOffset(localTS, o0), LAMBDA fixed :
             CivilFromMinutes(fixed[1] + fixed[2])))

Unresolved == [startDateTime |-> NoStamp, endDateTime |-> NoStamp]

\* parseDateTime(dateStr, timeStr), called when the zone's offset is o0
parseDateTime(d, t, o0) ==
    IF d.form = "missing" \/ t.kind = "missing" THEN Unresolved
    ELSE IF timeMatch(t) = <<>> THEN Unresolved
    ELSE With(spaced(timeMatch(t)[1]), LAMBDA startTime :
         With(spaced(timeMatch(t)[2]), LAMBDA endTime :
             IF ~(IF strictMatch(d, startTime) /\ strictMatch(d, endTime)
                  THEN TRUE
                  ELSE lenientMatch(d, startTime) /\ lenientMatch(d, endTime))
             THEN Unresolved
             ELSE With(parseComponents(d, startTime), LAMBDA startComponents :
                  With(parseComponents(d, endTime), LAMBDA endComponents :
                      IF ~startComponents.ok \/ ~endComponents.ok
                      THEN Unresolved
                      ELSE With(tzFormat(startComponents, o0), LAMBDA startNY :
                           With(tzFormat(endComponents, o0), LAMBDA endNY :
                               IF startNY = NoStamp \/ endNY = NoStamp
                               THEN Unresolved
                               ELSE [startDateTime |-> startNY,
                                     endDateTime |-> endNY]))))))

\* the two files of the repository that hold the importer
Current == "src/unnamed/part_004"

Earlier == "src/scripts/import-rss-events.js"

Zones == {"America/New_York", "UTC"}

\* the month a word names for Date's parser: its first three letters,
\* whatever their case; 0 for none
namedMonth(word) ==
    IF \E i \in 1..12 : monthNames[i] = word
    THEN indexOf(monthNames, word) + 1
    ELSE IF word \in {"Jan", "january"} THEN 1
    ELSE 0

\* new Date(`${dateStr} ${time} EST`): the timestamp in minutes, valid FALSE
\* for an Invalid Date.  The weekday and the commas are skipped; a month is
\* a named month or the first of three numbers; of the two numbers beside a
\* named month the first is the day unless it is no day of a month; a year
\* below 50 is taken in 2000; the day must be 1..31 and runs over the end
\* of the month; the minutes must be followed by white space; the hour is
\* read by the 12-hour rules; EST is five hours behind UTC
DateParse(d, c) ==
    With(IF d.form = "numeric" THEN 1 ELSE namedMonth(d.month), LAMBDA month :
    With(IF d.day \in 1..31 THEN d.day ELSE d.year, LAMBDA day :
    With(IF d.day \in 1..31 THEN d.year ELSE d.day, LAMBDA y :
    With(IF y \in 0..49 THEN y + 2000 ELSE IF y \in 50..99 THEN y + 1900 ELSE y,
         LAMBDA year :
        IF month = 0 \/ day \notin 1..31 \/ c.sp = 0 \/ c.h \notin 0..12
             \/ c.m \notin 0..59
        THEN [valid |-> FALSE, ts |-> 0]
        ELSE [valid |-> TRUE,
              ts |-> DateUTC(year, month - 1, day,
                             (c.h % 12) + (IF toUpperCase(c.ap) = "PM"
                                           THEN 12 ELSE 0), c.m)
                       + 300]))))

\* dayjs(date).format('YYYY-MM-DDTHH:mm:ss'): the local time of the machine
localFormat(ts, z) ==
    IF z = "UTC" THEN CivilFromMinutes(ts)
    ELSE CivilFromMinutes(ts + tzOffset(ts))

\* parseDateTime(dateStr, timeStr) of the earlier file, on a machine in
\* zone z
parseDateTimeEST(d, t, z) ==
    IF d.form = "missing" \/ t.kind = "missing" THEN Unresolved
    ELSE IF timeMatch(t) = <<>> THEN Unresolved
    ELSE With(DateParse(d, timeMatch(t)[1]), LAMBDA startDate :
         With(DateParse(d, timeMatch(t)[2]), LAMBDA endDate :
             IF ~startDate.valid \/ ~endDate.valid THEN Unresolved
             ELSE [startDateTime |-> localFormat(startDate.ts, z),
                   endDateTime |-> localFormat(endDate.ts, z)]))

\* eventData: start_date_time and end_date_time
start_date_time == resolved.startDateTime

end_date_time ==
    IF resolved.endDateTime # NoStamp THEN resolved.endDateTime
    ELSE resolved.startDateTime

\* the times of day of the texts
Hours == {2, 6, 10, 12}

Minutes == {0, 30}

Clocks == [h : Hours, m : Minutes, sp : {0, 1}, ap : {"AM", "PM"}]

\* hyphen, en dash, em dash, and a word
Dashes == {"-", "U+2013", "U+2014", "to"}

TimeTexts ==
    [kind : {"range"}, s : Clocks, e : Clocks, dash : Dashes]
    \cup { NoTime,
           [kind |-> "range", s |-> [h |-> 6, m |-> 0, sp |-> 0, ap |-> "pm"],
            e |-> [h |-> 10, m |-> 0, sp |-> 1, ap |-> "pm"], dash |-> "-"],
           [kind |-> "single", s |-> [h |-> 6, m |-> 0, sp |-> 1, ap |-> "PM"],
            e |-> NoClock, dash |-> Null] }

\* dates that exist (among them the two days on which the zone's offset
\* changes in 2026), dates that do not, and texts that are no such date
DateTexts ==
    { [form |-> "strict", month |-> md[1], day |-> md[2], year |-> md[3]] :
        md \in { <<"January", 26, 2026>>, <<"March", 8, 2026>>,
                 <<"November", 1, 2026>>, <<"December", 31, 2026>>,
                 <<"February", 29, 2028>>, <<"February", 29, 2026>>,
                 <<"February", 30, 2026>>, <<"April", 31, 2026>>,
                 <<"January", 0, 2026>>, <<"January", 26, 26>>,
                 <<"Jan", 26, 2026>>, <<"january", 26, 2026>> } }
    \cup { [form |-> f, month |-> "January", day |-> 26, year |-> 2026] :
             f \in {"noComma", "noWeekday", "numeric"} }
    \cup { NoText }

\* processRSSItem: parsed.dateStr and parsed.timeStr of the item, and the
\* season in which the importer runs
ReadTexts ==
    /\ dpc = "item"
    /\ dateStr' \in DateTexts
    /\ timeStr' \in TimeTexts
    /\ previousOffset' \in {0 - 300, 0 - 240}
    /\ dpc' = "parse"
    /\ UNCHANGED <<resolved, dateResult, copy, zone>>
    /\ UNCHANGED <<importVars, cmsVars>>

\* processRSSItem: parseDateTime(parsed.dateStr, parsed.timeStr)
ParseDateTime ==
    /\ dpc = "parse"
    /\ resolved' = parseDateTime(dateStr, timeStr, previousOffset)
    /\ copy' = Current
    /\ dpc' = "check"
    /\ UNCHANGED <<dateStr, timeStr, previousOffset, dateResult, zone>>
    /\ UNCHANGED <<importVars, cmsVars>>

\* processRSSItem of the earlier file: parseDateTime(parsed.dateStr,
\* parsed.timeStr)
ParseDateTimeEST ==
    /\ dpc = "parse"
    /\ resolved' = parseDateTimeEST(dateStr, timeStr, zone)
    /\ copy' = Earlier
    /\ dpc' = "check"
    /\ UNCHANGED <<dateStr, timeStr, previousOffset, dateResult, zone>>
    /\ UNCHANGED <<importVars, cmsVars>>

\* processRSSItem: the test of startDateTime; the item fails here or goes on
\* to the past check and, when it is created, carries the two timestamps
DateCheck ==
    /\ dpc = "check"
    /\ dateResult' = IF resolved.startDateTime = NoStamp
                     THEN R("failed", "date_parse_error")
                     ELSE NoResult
    /\ dpc' = "done"
    /\ UNCHANGED <<dateStr, timeStr, previousOffset, resolved, copy, zone>>
    /\ UNCHANGED <<importVars, cmsVars>>

DateNext == ReadTexts \/ ParseDateTime \/ ParseDateTimeEST \/ DateCheck

\* in the importer as a whole the resolver is not run on its own
DateOff ==
    /\ dateStr = NoText
    /\ timeStr = NoTime
    /\ previousOffset = 0 - 300
    /\ dpc = "off"
    /\ resolved = Unresolved
    /\ dateResult = NoResult
    /\ copy = Null
    /\ zone = "America/New_York"

(* ------------------- the site's reads from the CMS --------------------- *)

\* import.meta.env: a URL variable is unset, blank or set
Urls == {Null, " ", "http://directus:8055"}

CmsEnvs == [SSR : BOOLEAN, DIRECTUS_URL : Urls, PUBLIC_DIRECTUS_URL : Urls]

\* String.prototype.trim on the values of Urls
trim(url) == IF url = " " THEN "" ELSE url

\* getConfiguredDirectusUrl
getConfiguredDirectusUrl(e) ==
    LET url == IF e.SSR THEN e.DIRECTUS_URL ELSE e.PUBLIC_DIRECTUS_URL
    IN  IF url = Null \/ trim(url) = "" THEN Null ELSE url

\* getDirectusClient: the URL the client is made for, or null
getDirectusClient(e) ==
    IF getConfiguredDirectusUrl(e) = Null THEN Null
    ELSE getConfiguredDirectusUrl(e)

\* the read functions
Fns == {"getPageData", "getPostData", "getGlobals", "getEvents",
        "getEventsByTag", "getEventBySlugAndTag", "getEventByIdAndTag",
        "getBooks", "getMeetups", "getPodcastEpisodes",
        "getPodcastEpisodeBySlug"}

\* what a function makes of the rows it has read
Shape(f) ==
    CASE f \in {"getPageData", "getPostData", "getEventByIdAndTag"} -> "first"
      [] f = "getGlobals" -> "single"
      [] f = "getPodcastEpisodeBySlug" -> "find"
      [] OTHER -> "list"

\* the functions that read the tag before the Events
ByTag == {"getEventsByTag", "getEventBySlugAndTag", "getEventByIdAndTag"}

\* the functions whose catch looks for a permission error
PermissionAware == {"getPodcastEpisodes", "getEvents", "getEventsByTag",
                    "getEventBySlugAndTag", "getEventByIdAndTag", "getBooks",
                    "getMeetups"}

\* the collection of the first request of a function
FirstCollection(f) ==
    CASE f \in ByTag -> "tags"
      [] f = "getPageData" -> "pages"
      [] f = "getPostData" -> "posts"
      [] f = "getGlobals" -> "Globals"
      [] f = "getEvents" -> "Events"
      [] f = "getBooks" -> "Books"
      [] f = "getMeetups" -> "Meetups"
      [] OTHER -> "Podcasts"

\* CmsResult: data is null, one row or an array of rows
NoData == [kind |-> "null", rows |-> <<>>]

\* a result with neither data nor error
Fail_silent(code) == [data |-> NoData, error |-> Null]

\* a result that carries an error code
Fail(code) == [data |-> NoData, error |-> code]

OneRow(row) == [data |-> [kind |-> "row", rows |-> <<row>>], error |-> Null]

Rows(rows) == [data |-> [kind |-> "array", rows |-> rows], error |-> Null]

\* no function has returned
NoCmsResult == [data |-> NoData, error |-> Null]

\* a call that ended by an exception of its own
Threw == [data |-> NoData, error |-> "TypeError"]

\* what a request is rejected with: the Error of withTimeout, the TypeError
\* of fetch, the object the SDK throws for an HTTP error
TimeoutError == [native |-> TRUE, message |-> "Timeout after 2500ms",
                 status |-> Null, body |-> Null]

RequestErrors ==
    { [native |-> TRUE, message |-> "fetch failed", status |-> Null,
       body |-> Null],
      [native |-> FALSE, message |-> Null, status |-> "403",
       body |-> "You don't have permission to access this."],
      [native |-> FALSE, message |-> Null, status |-> "401",
       body |-> "Forbidden"],
      [native |-> FALSE, message |-> Null, status |-> "500", body |-> Null],
      [native |-> TRUE, message |-> "Forbidden", status |-> Null,
       body |-> Null] }

\* generateSlug(null): text.toLowerCase() throws
SlugError == [native |-> TRUE,
              message |-> "Cannot read properties of null (reading 'toLowerCase')",
              status |-> Null, body |-> Null]

\* the messages above that /fetch|ECONNREFUSED|ENOTFOUND|network|timed out|
\* timeout/i matches
NetworkMessages == {"Timeout after 2500ms", "fetch failed"}

\* the messages above that include "permission" or "Forbidden"
PermissionMessages == {"You don't have permission to access this.",
                       "Forbidden"}

\* isProbablyNetworkError: the message of an Error, String(error) otherwise
isProbablyNetworkError(error) ==
    (IF error.native THEN error.message ELSE "[object Object]")
        \in NetworkMessages

\* the catch blocks: errorMessage
errorMessage(error) ==
    IF error.status # Null
    THEN IF error.body # Null THEN error.body ELSE "Unknown error"
    ELSE IF error.native THEN error.message
    ELSE "[object Object]"

\* the catch block of a function
Catch(f, error) ==
    IF /\ f \in PermissionAware
       /\ error.status = "403" \/ errorMessage(error) \in PermissionMessages
    THEN Fail("CMS_UNAVAILABLE")
    ELSE Fail(IF isProbablyNetworkError(error) THEN "CMS_UNAVAILABLE"
              ELSE "UNKNOWN")

\* texts are sequences of characters; a title that is null
NoTitle == <<Null>>

\* String.prototype.toLowerCase on the letters of the titles
lower(c) ==
    CASE c = "B" -> "b" [] c = "T" -> "t" [] c = "C" -> "c" [] OTHER -> c

\* \s, and the class [\s_-]
Separators == {" ", "_", "-"}

\* \w
WordChars == {"b", "t", "c", "x", "1", "_"}

RECURSIVE DropLeading(_, _)
DropLeading(s, cs) ==
    IF s # <<>> /\ Head(s) \in cs THEN DropLeading(Tail(s), cs) ELSE s

RECURSIVE DropTrailing(_, _)
DropTrailing(s, cs) ==
    IF s # <<>> /\ s[Len(s)] \in cs
    THEN DropTrailing(SubSeq(s, 1, Len(s) - 1), cs)
    ELSE s

\* replace(/[\s_-]+/g, '-')
RECURSIVE Hyphenate(_)
Hyphenate(s) ==
    IF s = <<>> THEN <<>>
    ELSE IF Head(s) \in Separators
    THEN <<"-">> \o Hyphenate(DropLeading(s, Separators))
    ELSE <<Head(s)>> \o Hyphenate(Tail(s))

IsWordOrSpace(c) == c \in WordChars \cup {" ", "-"}

\* generateSlug
generateSlug(text) ==
    With([i \in 1..Len(text) |-> lower(text[i])], LAMBDA lowered :
    With(DropTrailing(DropLeading(lowered, {" "}), {" "}), LAMBDA trimmed :
    With(SelectSeq(trimmed, IsWordOrSpace), LAMBDA kept :
    With(Hyphenate(kept), LAMBDA joined :
        DropTrailing(DropLeading(joined, {"-"}), {"-"})))))

\* Array.prototype.find with the slug test: the index of the first row
\* whose title gives the slug, 0 for none; generateSlug throws on a row
\* without title that is reached
RECURSIVE find(_, _, _)
find(rows, wanted, i) ==
    IF i > Len(rows) THEN [threw |-> FALSE, idx |-> 0]
    ELSE IF rows[i].title = NoTitle THEN [threw |-> TRUE, idx |-> 0]
    ELSE IF generateSlug(rows[i].title) = wanted
    THEN [threw |-> FALSE, idx |-> i]
    ELSE find(rows, wanted, i + 1)

\* what a function returns when its tag request found no tag
NoTag(f) ==
    IF f = "getEventByIdAndTag" THEN Fail("NOT_FOUND") ELSE Rows(<<>>)

\* what a function returns from the rows of its last request
Result(f, wanted, rows) ==
    CASE Shape(f) = "first" ->
            IF Len(rows) = 0 THEN Fail("NOT_FOUND") ELSE OneRow(rows[1])
      [] Shape(f) = "single" -> OneRow(rows[1])
      [] Shape(f) = "find" ->
            With(find(rows, wanted, 1), LAMBDA r :
                IF r.threw THEN Catch(f, SlugError)
                ELSE IF r.idx = 0 THEN Fail("NOT_FOUND")
                ELSE OneRow(rows[r.idx]))
      [] OTHER -> Rows(rows)

\* getEventBySlugAndTag, after getEventsByTag has returned res
getEventBySlugAndTag(res, wanted) ==
    IF res.error # Null \/ res.data.kind = "null"
    THEN Fail(res.error)
    ELSE With(find(res.data.rows, wanted, 1), LAMBDA r :
            IF r.threw THEN Threw
            ELSE IF r.idx = 0 THEN Fail("NOT_FOUND")
            ELSE OneRow(res.data.rows[r.idx]))

\* what the caller of f gets when the function that holds the requests of f
\* returns res
Returned(f, wanted, res) ==
    IF f = "getEventBySlugAndTag" THEN getEventBySlugAndTag(res, wanted)
    ELSE res

\* the rows of the model: two titles with the same slug, a row without title
Plain == [id |-> 1, title |-> <<"B", "T", "C", " ", "_", "1", "!">>]

Dashed == [id |-> 2, title |-> <<" ", "-", "b", "t", "c", "-", "1", " ">>]

Untitled == [id |-> 3, title |-> NoTitle]

RowLists == {<<>>, <<Plain>>, <<Dashed, Plain>>, <<Untitled, Plain>>,
             <<Plain, Untitled>>}

TagLists == {<<>>, <<[id |-> 7, name |-> "bitplebs"]>>}

\* the Globals singleton is answered with one object
Singleton == {<<[id |-> 1, title |-> <<"b", "t", "c">>]>>}

Slugs == {<<"b", "t", "c", "-", "1">>, <<"x">>}

\* a page calls a read function
CmsCall ==
    /\ cpc = "idle"
    /\ \E f \in Fns, s \in Slugs :
         /\ fn' = f
         /\ slug' = s
         /\ IF getDirectusClient(cmsEnv) = Null
            THEN /\ cmsResult' = Returned(f, s, Fail("CMS_NOT_CONFIGURED"))
                 /\ cpc' = "returned"
                 /\ pending' = Null
                 /\ requests' = 0
            ELSE /\ cmsResult' = NoCmsResult
                 /\ cpc' = "await"
                 /\ pending' = FirstCollection(f)
                 /\ requests' = 1
    /\ UNCHANGED <<cmsEnv, importVars, dateVars>>

\* withTimeout: the timer wins the race
CmsTimeout ==
    /\ cpc = "await"
    /\ cmsResult' = Returned(fn, slug, Catch(fn, TimeoutError))
    /\ cpc' = "returned"
    /\ UNCHANGED <<cmsEnv, fn, slug, pending, requests, importVars, dateVars>>

\* client.request rejects
CmsReject ==
    /\ cpc = "await"
    /\ \E error \in RequestErrors :
         cmsResult' = Returned(fn, slug, Catch(fn, error))
    /\ cpc' = "returned"
    /\ UNCHANGED <<cmsEnv, fn, slug, pending, requests, importVars, dateVars>>

\* client.request resolves with the rows read
CmsResolve ==
    /\ cpc = "await"
    /\ IF pending = "tags"
       THEN \E tags \in TagLists :
              IF Len(tags) = 0
              THEN /\ cmsResult' = Returned(fn, slug, NoTag(fn))
                   /\ cpc' = "returned"
                   /\ UNCHANGED <<pending, requests>>
              ELSE /\ pending' = "Events"
                   /\ requests' = requests + 1
                   /\ UNCHANGED <<cmsResult, cpc>>
       ELSE \E rows \in IF Shape(fn) = "single" THEN Singleton ELSE RowLists :
              /\ cmsResult' = Returned(fn, slug, Result(fn, slug, rows))
              /\ cpc' = IF cmsResult' = Threw THEN "threw" ELSE "returned"
              /\ UNCHANGED <<pending, requests>>
    /\ UNCHANGED <<cmsEnv, fn, slug, importVars, dateVars>>

CmsNext == CmsCall \/ CmsTimeout \/ CmsReject \/ CmsResolve

\* in the importer no page is rendered
CmsOff ==
    /\ cmsEnv = [SSR |-> TRUE, DIRECTUS_URL |-> Null,
                 PUBLIC_DIRECTUS_URL |-> Null]
    /\ cpc = "off"
    /\ fn = Null
    /\ slug = <<>>
    /\ pending = Null
    /\ requests = 0
    /\ cmsResult = NoCmsResult

(* ------------------------- the feeds and the env ----------------------- *)

One(x) == <<<<x>>, <<>>, <<>>>>

\* the same link in two feeds, and twice in one feed: the second time
\* with another image, a Meetup link and a title that earns the tag
First == [Bare EXCEPT !.imageUrl = "a.jpg"]

Again == [Bare EXCEPT !.imageUrl = "b.jpg", !.bp = TRUE,
                      !.hrefs = <<"meetup.com/a">>]

\* the event of Bare again, announced for an earlier time, at a venue, with
\* a website link on its page
Moved == [Bare EXCEPT !.start = 1, !.venueName = "hall", !.web = "web"]

\* a well-formed future event
Future == [Bare EXCEPT !.venueName = "hall", !.hrefs = <<"lu.ma/a">>]

\* one feed of three items, in every order
Scenario ==
    { <<<<Future, Past, NoQuote>>, <<>>, <<>>>>,
      <<<<Future, NoQuote, Past>>, <<>>, <<>>>>,
      <<<<Past, Future, NoQuote>>, <<>>, <<>>>>,
      <<<<Past, NoQuote, Future>>, <<>>, <<>>>>,
      <<<<NoQuote, Future, Past>>, <<>>, <<>>>>,
      <<<<NoQuote, Past, Future>>, <<>>, <<>>>> }

Worlds ==
    { One(x) : x \in Variants }
    \cup { <<<<First>>, <<Again>>, <<>>>>,
           <<<<Bare>>, <<Moved>>, <<>>>>,
           <<<<NoQuote>>, <<Bare>>, <<[Bare EXCEPT !.link = "u2"]>>>>,
           <<<<[Bare EXCEPT !.link = "u2"], NoContent, Bare>>, <<Bare>>, <<>>>> }
    \cup Scenario

Envs ==
    { [events |-> Null, static |-> Null, admin |-> Null],
      [events |-> Null, static |-> "s-token", admin |-> "a-token"] }

\* every combination of the three token variables being set or not
AllEnvs ==
    [events : {Null, "e-token"}, static : {Null, "s-token"},
     admin : {Null, "a-token"}]

\* one item with everything an item can carry
TokenWorlds == { One(Rich) }

\* before the first run: no process, an empty store
Fresh ==
    /\ run = 0
    /\ cleanBefore = TRUE
    /\ pc = "idle"
    /\ token = Null
    /\ exitCode = NoExit
    /\ now = 1
    /\ feedIdx = 1
    /\ itemIdx = 0
    /\ feedError = FALSE
    /\ results = Zero
    /\ overall = Zero
    /\ scrapeOut = Null
    /\ exq = Null
    /\ existing = NoId
    /\ imageId = NoId
    /\ venueId = NoId
    /\ tagId = NoId
    /\ updatesNeeded = {}
    /\ result = NoResult
    /\ Events = <<>>
    /\ Venues = <<>>
    /\ Tags = <<>>
    /\ Files = <<>>
    /\ calls = {}
    /\ auth = {}
    /\ fails = {}
    /\ clean = TRUE
    /\ rejected = FALSE
    /\ attempted = {}
    /\ failedFeeds = {}
    /\ abortedFeeds = {}

Init ==
    /\ feeds \in Worlds
    /\ env \in Envs
    /\ Fresh
    /\ DateOff
    /\ CmsOff

Spec == Init /\ [][Next]_vars

\* the same program under every configuration of the token variables
TokenInit ==
    /\ feeds \in TokenWorlds
    /\ env \in AllEnvs
    /\ Fresh
    /\ DateOff
    /\ CmsOff

TokenSpec == TokenInit /\ [][Next]_vars

\* the date resolver on its own, for the date and time texts of one item
DateInit ==
    /\ feeds = One(Bare)
    /\ env = [events |-> "e-token", static |-> Null, admin |-> Null]
    /\ Fresh
    /\ dateStr = NoText
    /\ timeStr = NoTime
    /\ previousOffset = 0 - 300
    /\ dpc = "item"
    /\ resolved = Unresolved
    /\ dateResult = NoResult
    /\ copy = Null
    /\ zone \in Zones
    /\ CmsOff

DateSpec == DateInit /\ [][DateNext]_vars

\* the site's read functions on their own, for one call
CmsInit ==
    /\ feeds = One(Bare)
    /\ env = [events |-> "e-token", static |-> Null, admin |-> Null]
    /\ Fresh
    /\ DateOff
    /\ cmsEnv \in CmsEnvs
    /\ cpc = "idle"
    /\ fn = Null
    /\ slug = <<>>
    /\ pending = Null
    /\ requests = 0
    /\ cmsResult = NoCmsResult

CmsSpec == CmsInit /\ [][CmsNext]_vars

(* ------------------------------- claims -------------------------------- *)

\* the calls a started item can be waiting for once the past check is done,
\* and the return of its result
AfterCheck == {"exists", "download", "upload", "venue_q", "venue_c", "tag_q",
               "tag_c", "patch", "create", "tally"}

\* the Event records whose external_url is url
EventsOf(url) == {i \in 1..Len(Events) : Events[i].external_url = url}

\* C1: after any number of sequential runs, with any store call failing or
\* not, the Events collection holds at most one record per external_url.
C1_AtMostOnePerUrl ==
    \A i, j \in 1..Len(Events) :
        Events[i].external_url = Events[j].external_url => i = j

\* C1: the existence query for a stored link failed and the item was
\* created a second time
C1_Witness ==
    /\ pc = "tally" /\ result.status = "created" /\ exq = "failed"
    /\ Cardinality(EventsOf(Item.link)) = 2

\* the outcomes an item can repeat without touching the store
Untouched == {R("skipped", "already_exists"), R("skipped", "past_event"),
              R("failed", "parse_error"), R("failed", "date_parse_error")}

\* C2: in a run after a run without failures, over the same feed items and
\* the store the earlier run left, no Event create and no Event update is
\* requested or counted, whatever fails in this run; every item that
\* reaches the existence query ends skipped/already_exists, every other
\* item ends parse_error, date_parse_error or past_event.
C2_SecondRun ==
    (run >= 2 /\ cleanBefore) =>
        /\ pc \notin {"patch", "create"}
        /\ results.created = 0 /\ results.updated = 0
        /\ overall.created = 0 /\ overall.updated = 0
        /\ pc = "tally" =>
             /\ result \in Untouched
             /\ "exists" \in calls => result = R("skipped", "already_exists")

\* C2: in the run after a run without failures the existence query of a
\* stored link failed and the item was created a second time
C2_SecondCreate ==
    /\ run = 2 /\ cleanBefore
    /\ pc = "tally" /\ result = R("created", Null) /\ fails = {"exists"}
    /\ Cardinality(EventsOf(Item.link)) = 2

\* C2, the part that holds after a run without failures: an item whose
\* existence query is answered causes no create and no update, whatever
\* else fails, and no run after the first counts an update
C2_UnlessQueryFails ==
    (run >= 2 /\ cleanBefore) =>
        /\ pc # "patch"
        /\ results.updated = 0 /\ overall.updated = 0
        /\ exq # "failed" =>
             /\ pc # "create"
             /\ pc = "tally" =>
                  /\ result \in Untouched
                  /\ "exists" \in calls
                       => result = R("skipped", "already_exists")

\* C2, the part that holds when no call has failed in any run: the second
\* run requests and counts no create and no update
C2_Idempotent ==
    (run >= 2 /\ clean) =>
        /\ pc \notin {"patch", "create"}
        /\ results.created = 0 /\ results.updated = 0
        /\ overall.created = 0 /\ overall.updated = 0
        /\ pc = "tally" =>
             /\ result \in Untouched
             /\ "exists" \in calls => result = R("skipped", "already_exists")

\* C2, read by the letter: in a second run without failures every item,
\* also one without blockquote, without date or in the past, ends
\* skipped/already_exists (it does not).
C2_AllAlreadyExist ==
    (run >= 2 /\ clean /\ pc = "tally") => result = R("skipped", "already_exists")

\* C2: a second run meets an event the first run created from an item
\* that carries an image, a venue and the tag keyword
C2_Witness ==
    /\ run = 2 /\ clean /\ pc = "tally"
    /\ result = R("skipped", "already_exists")
    /\ Item = Rich
    /\ Ev.image # NoId /\ Ev.tags # NoId /\ Ev.rsvp_url = "web"

\* C3: no step changes a non-empty image, rsvp_url or tags of a stored
\* Event, whatever the re-imported item carries.
C3_NoOverwrite ==
    [][\A i \in 1..Len(Events) :
          /\ Len(Events') >= Len(Events)
          /\ Events[i].image # NoId => Events'[i].image = Events[i].image
          /\ Events[i].rsvp_url # Null => Events'[i].rsvp_url = Events[i].rsvp_url
          /\ Events[i].tags # NoId => Events'[i].tags = Events[i].tags]_vars

\* C3: an Event whose image was uploaded from a.jpg has been updated from an
\* item of the same link that carries b.jpg, and keeps its image
C3_Witness ==
    /\ pc = "tally" /\ result.status = "updated"
    /\ Item.imageUrl = "b.jpg"
    /\ Ev.image # NoId /\ Files[Ev.image] = "a.jpg"
    /\ "image" \notin updatesNeeded /\ "tags" \in updatesNeeded

\* C4: an item whose resolved start is strictly before the clock reading of
\* its past check ends skipped/past_event, and no Event create (nor any
\* other store request) is issued for it.
C4_PastExcluded ==
    (pc \in AfterCheck /\ Item.quote /\ Item.start # NoDate /\ Item.start < now)
        => /\ pc = "tally"
           /\ result = R("skipped", "past_event")
           /\ "create" \notin calls

\* C4: a past item with image, venue, tag keyword and RSVP links was skipped
C4_Witness ==
    /\ pc = "tally" /\ result = R("skipped", "past_event")
    /\ Item.imageUrl # Null /\ Item.venueName # Null /\ Item.bp
    /\ Item.hrefs # <<>> /\ Item.web # Null

\* C5: an item whose content has no blockquote ends failed/parse_error
\* before any call;
\* an item that ends parse_error, date_parse_error or past_event has caused
\* no content-store request.
C5_NoStoreRequest ==
    /\ (pc \in AfterCheck \cup {"scrape"} /\ Item.content /\ ~Item.quote)
           => (pc = "tally" /\ result = R("failed", "parse_error") /\ calls = {})
    /\ (pc = "tally"
          /\ result.reason \in {"parse_error", "date_parse_error", "past_event"})
           => calls \cap StoreCalls = {}

\* C5: a stored Event without image whose item carries one has passed its
\* start: the item was skipped and nothing was asked of the store
C5_Witness ==
    /\ pc = "tally" /\ result = R("skipped", "past_event")
    /\ Item.imageUrl # Null
    /\ EventsOf(Item.link) # {}
    /\ \A i \in EventsOf(Item.link) : Events[i].image = NoId

\* the RSVP URL the claim prescribes: the scraped link, else the first Luma
\* href of the content, else the first Meetup href, else none
FirstWhere(hrefs, S) ==
    IF \E i \in 1..Len(hrefs) : hrefs[i] \in S
    THEN hrefs[CHOOSE i \in 1..Len(hrefs) :
                  hrefs[i] \in S /\ \A j \in 1..(i - 1) : hrefs[j] \notin S]
    ELSE Null

ExpectedRsvp ==
    IF scrapeOut = "link" THEN Item.web
    ELSE IF FirstWhere(Item.hrefs, {"lu.ma/a", "lu.ma/b"}) # Null
         THEN FirstWhere(Item.hrefs, {"lu.ma/a", "lu.ma/b"})
    ELSE FirstWhere(Item.hrefs, {"meetup.com/a", "meetu.ps/a"})

\* C6: the rsvp_url written for an item (in the created Event, or by a
\* back-fill) is the scraped link if the scrape returned one, else the first
\* Luma link of the content, else the first Meetup link, else none; and an
\* item whose page scrape failed fails only for its date or its create.
C6_RsvpPriority ==
    /\ (pc = "tally" /\ result.status = "created")
           => Events[Len(Events)].rsvp_url = ExpectedRsvp
    /\ (pc = "tally" /\ result.status = "updated" /\ "rsvp_url" \in updatesNeeded)
           => Ev.rsvp_url = ExpectedRsvp
    /\ (pc \in AfterCheck /\ scrapeOut = "error" /\ result.status = "failed")
           => \/ result.reason = "date_parse_error" /\ Item.start = NoDate
              \/ result.reason = "create_error" /\ "create" \in calls

\* C6: the page has a website link but the scrape failed; the content has a
\* Meetup link before a Luma link; the Event was created with the Luma link
C6_Witness ==
    /\ pc = "tally" /\ result.status = "created"
    /\ scrapeOut = "error" /\ Item.web # Null
    /\ Item.hrefs = <<"meetup.com/a", "lu.ma/a">>
    /\ Events[Len(Events)].rsvp_url = "lu.ma/a"

\* C7: against the empty store, a feed of one well-formed future event, one
\* past event and one item without blockquote, in any order, whose create
\* the store accepts, returns total 3, created 1, updated 0, skipped 1,
\* failed 1.
C7_Scenario ==
    (run = 1 /\ feedIdx = 1 /\ pc = "feedret" /\ ~feedError /\ ~rejected
       /\ feeds \in Scenario)
        => results = [total |-> 3, created |-> 1, updated |-> 0,
                      skipped |-> 1, failed |-> 1]

\* C7: the feed that ends with the well-formed event has returned
C7_Witness ==
    /\ run = 1 /\ feedIdx = 1 /\ pc = "feedret" /\ ~feedError /\ ~rejected
    /\ feeds[1] = <<NoQuote, Past, Future>>
    /\ results.created = 1 /\ Len(Events) = 1

\* the counters of a feed result add up to n
Counted(res, n) ==
    res.total = n /\ res.created + res.updated + res.skipped + res.failed = n

\* C8: whatever fails, a run that has started can always take its next
\* step; when a feed that was fetched returns, every one of its items has
\* been processed and counted; at the summary every configured feed has
\* been attempted.
C8_NoPropagation ==
    /\ pc \notin {"idle", "exited"} => ENABLED Step
    /\ (pc = "feedret" /\ feedIdx \notin failedFeeds)
           => (itemIdx = Len(feeds[feedIdx])
                 /\ Counted(results, Len(feeds[feedIdx])))
    /\ pc = "summary" => attempted = 1..NumFeeds

\* C8: the second of three items has no content:encoded; the first was
\* created, the third is never processed, and the feed returns all zeros
C8_Witness ==
    /\ pc = "feedret" /\ feedIdx \in abortedFeeds
    /\ Len(feeds[feedIdx]) = 3 /\ itemIdx = 2
    /\ results = Zero /\ feedError
    /\ Len(Events) = 1

\* the feeds of this run that were fetched and whose item loop ran to its end
Fetched == {f \in 1..NumFeeds : f \notin failedFeeds \cup abortedFeeds}

RECURSIVE SumLen(_)
SumLen(F) ==
    IF F = {} THEN 0
    ELSE LET f == CHOOSE x \in F : TRUE
         IN  Len(feeds[f]) + SumLen(F \ {f})

\* C9: a feed whose fetch fails returns all-zero results with an error and
\* has processed no item (so no store call); at the summary every feed has
\* been attempted and the items of every feed that was fetched are counted.
C9_FeedFailureIsolated ==
    /\ (pc = "feedret" /\ feedIdx \in failedFeeds)
           => (results = Zero /\ feedError /\ itemIdx = 0)
    /\ (pc \in AfterCheck \cup {"item", "scrape", "delay"})
           => (~feedError /\ feedIdx \notin failedFeeds)
    /\ pc = "summary"
           => /\ attempted = 1..NumFeeds
              /\ overall.total = SumLen(Fetched)
              /\ overall.created + overall.updated + overall.skipped
                   + overall.failed = SumLen(Fetched)

\* C9: the first feed's fetch failed and the items of the two later feeds
\* were processed and counted
C9_Witness ==
    /\ pc = "summary" /\ failedFeeds = {1}
    /\ Len(feeds[1]) = 1
    /\ overall.total = 2 /\ overall.created = 2

\* C10: a run ends with exit code 1 exactly if none of the three token
\* variables is set, and with exit code 0 otherwise, whatever failed.
C10_ExitCode ==
    pc = "exited" =>
        /\ exitCode = 1 <=> (env.events = Null /\ env.static = Null
                               /\ env.admin = Null)
        /\ exitCode = 0 <=> (env.events # Null \/ env.static # Null
                               \/ env.admin # Null)

\* C10: a run in which a feed fetch and an item failed has exited with 0
C10_Witness ==
    /\ pc = "exited" /\ exitCode = 0
    /\ failedFeeds # {} /\ overall.failed > 0

\* C11: in a run started with none of the three token variables set, the
\* process is never waiting for a network call: it has exited with code 1,
\* no feed has been fetched, no call has been made, and the store has
\* never been written.
C11_FailFast ==
    (run >= 1 /\ env.events = Null /\ env.static = Null /\ env.admin = Null)
        => /\ pc = "exited" /\ exitCode = 1
           /\ attempted = {} /\ calls = {} /\ auth = {} /\ clean
           /\ Events = <<>> /\ Venues = <<>> /\ Tags = <<>> /\ Files = <<>>

\* C11: the second run without a token has exited as well
C11_Witness ==
    /\ run = 2 /\ pc = "exited" /\ exitCode = 1
    /\ env.events = Null /\ env.static = Null /\ env.admin = Null
    /\ Len(feeds[1]) > 0

\* the first non-empty of the three token variables, in the claim's order
FirstSet(e) ==
    IF e.events # Null THEN e.events
    ELSE IF e.static # Null THEN e.static
    ELSE e.admin

\* C12: from the start of a run on, DIRECTUS_TOKEN is the first non-empty
\* of the dedicated, the static and the admin token; every content-store
\* request of an item carries exactly that value; no step of a running
\* process changes it.
C12_TokenPriority ==
    [][/\ (run' >= 1 => token' = FirstSet(env'))
       /\ auth' \subseteq {FirstSet(env)}
       /\ (calls' \cap StoreCalls # {} => auth' = {FirstSet(env)})
       /\ (pc \notin {"idle", "exited"} => token' = token)]_vars

\* C12: the static and the admin token are set, the dedicated one is not;
\* an item has been created after image, venue and tag requests
C12_Witness ==
    /\ env = [events |-> Null, static |-> "s-token", admin |-> "a-token"]
    /\ pc = "tally" /\ result.status = "created"
    /\ {"exists", "upload", "venue_c", "tag_c", "create"} \subseteq calls
    /\ auth = {"s-token"}

\* created + updated + skipped + failed
Sum4(res) == res.created + res.updated + res.skipped + res.failed

\* the step counts one item: counter c goes up by one, the others stay
CountsOne(c) ==
    /\ results'.total = results.total
    /\ results'.created = results.created + (IF c = "created" THEN 1 ELSE 0)
    /\ results'.updated = results.updated + (IF c = "updated" THEN 1 ELSE 0)
    /\ results'.skipped = results.skipped + (IF c = "skipped" THEN 1 ELSE 0)
    /\ results'.failed = results.failed + (IF c = "failed" THEN 1 ELSE 0)

\* the step counts the result and sets the timer of the delay
Delays == pc' = "delay" /\ itemIdx' = itemIdx /\ feedIdx' = feedIdx

\* the step goes on to the next item of the feed, or returns the feed result
\* after the last one
GoesOn ==
    IF itemIdx < Len(feeds[feedIdx])
    THEN pc' = "item" /\ itemIdx' = itemIdx + 1 /\ feedIdx' = feedIdx
    ELSE pc' = "feedret" /\ ~feedError'

\* C13, the part that holds on every step: a create the store rejects adds
\* no Event record and ends the item as failed/create_error; an Event with
\* the item's link exists afterwards only if it was stored before and the
\* item's existence query failed; the result increments the failed counter
\* alone by one and the loop goes on to the next item.
C13_CreateRejected ==
    [][/\ (pc = "create" /\ Len(Events') = Len(Events))
            => (Events' = Events /\ pc' = "tally"
                  /\ result' = R("failed", "create_error"))
       /\ (pc = "tally" /\ result.reason = "create_error")
            => /\ result.status = "failed" /\ "create" \in calls
               /\ EventsOf(Item.link) # {} => exq = "failed"
               /\ CountsOne("failed") /\ Delays /\ Events' = Events
       /\ (pc = "delay" /\ result.reason = "create_error")
            => (GoesOn /\ results' = results /\ Events' = Events)]_vars

\* C13: an item whose create the store rejected ends failed/create_error,
\* and no Event record with its link exists afterwards.
C13_NoRecordAfterwards ==
    /\ ("create" \in fails /\ pc = "tally") => result = R("failed", "create_error")
    /\ (pc = "tally" /\ result.reason = "create_error")
         => EventsOf(Item.link) = {}

\* C13: the Event of the item is stored, its existence query failed, the
\* create was rejected: the item has failed and its Event exists
C13_Witness ==
    /\ pc = "tally" /\ result = R("failed", "create_error")
    /\ {"exists", "create"} \subseteq fails
    /\ Cardinality(EventsOf(Item.link)) = 1

\* C14: an update is requested only for a stored Event with a non-empty
\* patch; when the store rejects it (the record is not changed), the Events
\* collection is exactly as before, the item ends skipped/already_exists,
\* is counted as skipped alone, and the loop goes on.
C14_UpdateRejected ==
    [][/\ pc = "patch"
            => /\ existing # NoId /\ updatesNeeded # {}
               /\ Events' = Events \/ result' = R("updated", "fields_updated")
               /\ Events' = Events
                    => (pc' = "tally" /\ result' = R("skipped", "already_exists"))
       /\ (pc = "tally" /\ "patch" \in calls /\ result.status # "updated")
            => /\ result = R("skipped", "already_exists")
               /\ CountsOne("skipped") /\ Delays /\ Events' = Events
       /\ (pc = "delay" /\ result = R("skipped", "already_exists"))
            => (GoesOn /\ results' = results /\ Events' = Events)]_vars

\* C14: an image was uploaded for a stored Event without one, the update
\* was rejected, and the Event still has no image
C14_Witness ==
    /\ pc = "tally" /\ "patch" \in calls
    /\ result = R("skipped", "already_exists")
    /\ "image" \in updatesNeeded /\ imageId # NoId
    /\ Ev.image = NoId

\* the steps between the existence check and the create or update request
Auxiliary == {"download", "upload", "venue_q", "venue_c", "tag_q", "tag_c"}

\* the Event the current item has just created
Created == Events[Len(Events)]

\* C15: an item for which no stored Event was found has no outcome before
\* its create request returns, whichever of the image, venue and tag calls
\* fail; the Event created has an empty image, venue or tag exactly where
\* the item has none or a call of that step failed, the relation the item
\* carries otherwise, and the item's link and RSVP URL.
C15_AuxiliaryAbsorbed ==
    /\ (pc \in Auxiliary /\ existing = NoId) => result = NoResult
    /\ (pc = "tally" /\ exq \in {"absent", "failed"}) => "create" \in calls
    /\ (pc = "tally" /\ result.status = "created")
         => /\ Created.external_url = Item.link
            /\ Created.rsvp_url = ExpectedRsvp
            /\ IF Item.imageUrl = Null \/ fails \cap {"download", "upload"} # {}
               THEN Created.image = NoId
               ELSE Created.image # NoId
                      /\ Files[Created.image] = Item.imageUrl
            /\ IF Item.venueName = Null \/ fails \cap {"venue_q", "venue_c"} # {}
               THEN Created.location = NoId
               ELSE Created.location # NoId
                      /\ Venues[Created.location] = Item.venueName
            /\ IF ~Item.bp \/ fails \cap {"tag_q", "tag_c"} # {}
               THEN Created.tags = NoId
               ELSE Created.tags # NoId /\ Tags[Created.tags] = "bitplebs"

\* C15: the upload and the venue create failed, the tag was created; the
\* Event exists without image and venue, with tag and RSVP URL
C15_Witness ==
    /\ pc = "tally" /\ result.status = "created"
    /\ {"upload", "venue_c"} \subseteq fails /\ "tag_c" \in calls \ fails
    /\ Created.image = NoId /\ Created.location = NoId
    /\ Created.tags # NoId /\ Created.rsvp_url = "web"

\* C16: an Event create is requested for an item only after its existence
\* query was answered with no record.
C16_CreateOnlyIfAbsent ==
    (pc = "create" \/ "create" \in calls) => exq = "absent"

\* C16: the existence query of an item failed and, without knowing whether
\* the Event is stored, the importer created it
C16_Witness ==
    /\ pc = "tally" /\ result.status = "created"
    /\ "exists" \in fails /\ exq = "failed"
    /\ Len(Events) = 1 /\ run = 1

\* the seven outcomes of an item
Outcomes ==
    {R("created", Null), R("updated", "fields_updated"),
     R("skipped", "past_event"), R("skipped", "already_exists"),
     R("failed", "parse_error"), R("failed", "date_parse_error"),
     R("failed", "create_error")}

\* C17: an item is at the date resolution only after its content parsed, and
\* at the existence check only after its date resolved and was not past;
\* every item ends in one of the seven outcomes (no item loop ends on an
\* item without outcome); created and create_error follow an existence
\* check that found no record, updated and already_exists one that found
\* a record.
C17_ItemStates ==
    /\ pc = "scrape" => (Item.content /\ Item.quote)
    /\ pc \in AfterCheck \ {"tally"}
         => (Item.content /\ Item.quote /\ Item.start # NoDate
               /\ ~(Item.start < now) /\ "exists" \in calls \cup {pc})
    /\ pc = "tally" => result \in Outcomes
    /\ abortedFeeds = {}
    /\ (pc = "tally" /\ result.status = "created") => exq = "absent"
    /\ (pc = "tally" /\ result.reason = "create_error") => exq = "absent"
    /\ (pc = "tally" /\ result.status = "updated") => exq = "found"
    /\ (pc = "tally" /\ result.reason = "already_exists") => exq = "found"

\* C17: the only item of a feed has no content:encoded; the item loop has
\* ended without any outcome for it
C17_Witness ==
    /\ pc = "feedret" /\ feedIdx \in abortedFeeds
    /\ Len(feeds[feedIdx]) = 1 /\ itemIdx = 1
    /\ result = NoResult /\ results = Zero

\* C18 (as amended): the page fetch is the first call of an item: it is
\* issued once the content has been extracted and before the date is
\* resolved; the existence check and everything after it follow the
\* fetch, the date resolution and the past check.  An item that ends as
\* date_parse_error or past_event has caused the page fetch and no other
\* call, an item that ends as parse_error none.
C18_ScrapeBeforeDate ==
    /\ pc = "scrape"
         => (parseEventDetails(Item).ok /\ calls = {} /\ result = NoResult)
    /\ pc \in AfterCheck \ {"tally"}
         => ("scrape" \in calls /\ Item.start # NoDate /\ ~(Item.start < now))
    /\ (pc = "tally" /\ result.reason \in {"date_parse_error", "past_event"})
         => calls = {"scrape"}
    /\ (pc = "tally" /\ result.reason = "parse_error") => calls = {}

\* C18 (as stated): an item that ends as date_parse_error has caused no
\* page fetch.
C18_NoFetchOnDateError ==
    (pc = "tally" /\ result.reason = "date_parse_error") => "scrape" \notin calls

\* C18: the page of an item with an unresolvable date was fetched and had
\* no website link; the item then failed on its date
C18_Witness ==
    /\ pc = "tally" /\ result = R("failed", "date_parse_error")
    /\ calls = {"scrape"} /\ scrapeOut = "none" /\ fails = {}
    /\ Item.hrefs # <<>>

\* C19: the feed index changes only when a feed has returned, and then to
\* the next feed in declaration order; the item index changes only when
\* the result of the current item has been counted and the delay after it
\* has passed, and then to the next item of the same feed (a newly fetched feed starts at its first item);
\* an item starts with no call made and no result; every call that returns
\* belongs to the item in progress.
C19_Sequential ==
    [][/\ feedIdx' # feedIdx
            => \/ pc = "feedret" /\ feedIdx' = feedIdx + 1 /\ pc' = "parseURL"
               \/ pc = "exited" /\ feedIdx' = 1
       /\ itemIdx' # itemIdx
            => \/ /\ pc = "delay" /\ pc' = "item"
                  /\ itemIdx' = itemIdx + 1 /\ feedIdx' = feedIdx
                  /\ Sum4(results) = itemIdx /\ results' = results
               \/ pc = "parseURL" /\ itemIdx' \in {0, 1} /\ feedIdx' = feedIdx
               \/ pc = "exited" /\ itemIdx' = 0
       /\ pc' = "item" => (pc \in {"parseURL", "delay"} /\ itemIdx' >= 1)
       /\ pc' = "delay"
            => (pc = "tally" /\ results' = Count(results, result)
                  /\ itemIdx' = itemIdx /\ feedIdx' = feedIdx)
       /\ pc = "item" => (calls = {} /\ result = NoResult)
       /\ calls' \notin {calls, {}}
            => /\ itemIdx' = itemIdx /\ feedIdx' = feedIdx
               /\ calls' = calls \cup {pc} /\ pc \notin calls]_vars

\* C19: the item of the third feed is waiting for its create while the
\* item of the second feed has been created and counted
C19_Witness ==
    /\ feedIdx = 3 /\ itemIdx = 1 /\ pc = "create"
    /\ Len(feeds[2]) = 1 /\ overall.created = 1 /\ Len(Events) = 1
    /\ calls = {"scrape", "exists"}

\* C20: while the items of a feed are processed, total is their number and
\* the four counters add up to the number of items counted so far; every
\* item that returns a result increments exactly its counter by one; every
\* feed result that is returned has total = created + updated + skipped +
\* failed, and is all zero when the fetch failed; the overall counters
\* start at zero and change only by adding a returned feed result, counter
\* by counter.
C20_TallyConsistent ==
    [][/\ pc \in AfterCheck \cup {"item", "scrape"}
            => (results.total = Len(feeds[feedIdx])
                  /\ Sum4(results) = itemIdx - 1)
       /\ pc = "tally"
            => /\ result.status \in {"created", "updated", "skipped", "failed"}
               /\ CountsOne(result.status)
               /\ Sum4(results') = Sum4(results) + 1
       /\ pc = "delay"
            => (results' = results /\ Sum4(results) = itemIdx
                  /\ results.total = Len(feeds[feedIdx]))
       /\ pc = "feedret"
            => /\ results.total = Sum4(results)
               /\ feedIdx \in failedFeeds => results = Zero
               /\ overall'.total = overall.total + results.total
               /\ overall'.created = overall.created + results.created
               /\ overall'.updated = overall.updated + results.updated
               /\ overall'.skipped = overall.skipped + results.skipped
               /\ overall'.failed = overall.failed + results.failed
       /\ overall' # overall => (pc = "feedret" \/ overall' = Zero)
       /\ overall.total = Sum4(overall)]_vars

\* C20: the second feed could not be fetched; the summary counts the failed
\* item of the first feed and the created item of the third
C20_Witness ==
    /\ pc = "summary" /\ failedFeeds = {2} /\ Len(feeds[2]) = 1
    /\ overall = [total |-> 2, created |-> 1, updated |-> 0, skipped |-> 0,
                  failed |-> 1]

\* C21: an update request is pending only with a non-empty patch whose keys
\* are among image, rsvp_url and tags; a key is in the patch only if that
\* field is empty on the stored record and the item supplies a value (image:
\* the upload succeeded; rsvp_url: a link was resolved; tags: the title has
\* the keyword and the tag was resolved); a step changes a stored Event only
\* by that request, only in the fields of the patch, and never in its
\* external_url, start or venue.
C21_SparsePatch ==
    [][/\ pc = "patch"
            => /\ existing # NoId /\ exq = "found"
               /\ updatesNeeded # {}
               /\ updatesNeeded \subseteq {"image", "rsvp_url", "tags"}
               /\ "image" \in updatesNeeded
                    => (Ev.image = NoId /\ imageId # NoId
                          /\ "upload" \in calls \ fails
                          /\ Files[imageId] = Item.imageUrl)
               /\ "rsvp_url" \in updatesNeeded
                    => (Ev.rsvp_url = Null /\ ExpectedRsvp # Null)
               /\ "tags" \in updatesNeeded
                    => (Ev.tags = NoId /\ Item.bp /\ tagId # NoId
                          /\ Tags[tagId] = "bitplebs")
       /\ \A i \in 1..Len(Events) :
            /\ Events'[i].external_url = Events[i].external_url
            /\ Events'[i].start = Events[i].start
            /\ Events'[i].location = Events[i].location
            /\ Events'[i] # Events[i]
                 => /\ pc = "patch" /\ i = existing
                    /\ Events'[i].image # Events[i].image
                         => ("image" \in updatesNeeded
                               /\ Events'[i].image = imageId)
                    /\ Events'[i].rsvp_url # Events[i].rsvp_url
                         => ("rsvp_url" \in updatesNeeded
                               /\ Events'[i].rsvp_url = ExpectedRsvp)
                    /\ Events'[i].tags # Events[i].tags
                         => ("tags" \in updatesNeeded
                               /\ Events'[i].tags = tagId)
       /\ (pc' = "tally" /\ exq' = "found" /\ updatesNeeded' = {})
            => (pc # "patch" /\ "patch" \notin calls'
                  /\ result' = R("skipped", "already_exists")
                  /\ Events' = Events)]_vars

\* C21: a stored Event without RSVP URL and venue was updated from an item
\* of the same link that carries both and another start; the patch had the
\* RSVP URL alone, the venue and the start are as stored
C21_Witness ==
    /\ pc = "tally" /\ result.status = "updated"
    /\ updatesNeeded = {"rsvp_url"}
    /\ Item.venueName # Null /\ Ev.location = NoId
    /\ Ev.start # Item.start
    /\ Ev.rsvp_url = "web"

\* the records of a collection of names that carry the name
Named(coll, name) == {i \in 1..Len(coll) : coll[i] = name}

\* the find-or-create contract for one name: q and c are the lookup and the
\* create request, id the reference the item holds
FindOrCreate(coll, name, q, c, id) ==
    /\ pc = q => (name # Null /\ {q, c} \cap calls = {} /\ id = NoId)
    /\ pc = c => (q \in calls \ fails /\ c \notin calls /\ id = NoId
                   /\ Named(coll, name) = {})
    /\ c \in calls => q \in calls \ fails
    /\ (q \in calls \ fails /\ c \notin calls \cup {pc})
         => (id # NoId /\ id \in Named(coll, name))
    /\ c \in calls \ fails
         => (id = Len(coll) /\ Named(coll, name) = {id})
    /\ (q \in fails \/ c \in fails) => id = NoId
    /\ id # NoId => q \in calls

\* C22: for the venue name of an item and for the tag 'bitplebs': no lookup
\* and no create is requested for an empty name; a lookup is requested at
\* most once; when it is answered with a record, the reference is that
\* record's id and no create is requested; when it is answered with no
\* record, the create is requested, once, and on success the reference is
\* the id of the new record; a failed lookup or create leaves no reference.
\* The tag requests are made only for an item whose title has the keyword.
C22_FindOrCreate ==
    pc \in AfterCheck =>
        /\ FindOrCreate(Venues, Item.venueName, "venue_q", "venue_c", venueId)
        /\ FindOrCreate(Tags, "bitplebs", "tag_q", "tag_c", tagId)
        /\ Item.venueName = Null
             => ({"venue_q", "venue_c"} \cap (calls \cup {pc}) = {}
                   /\ venueId = NoId)
        /\ ~Item.bp
             => ({"tag_q", "tag_c"} \cap (calls \cup {pc}) = {} /\ tagId = NoId)

\* C22: the venue of the item was found and no venue create was sent; its
\* tag was not found and was created; the Event refers to both
C22_Witness ==
    /\ pc = "tally" /\ result.status = "created"
    /\ "venue_q" \in calls /\ "venue_c" \notin calls
    /\ "tag_c" \in calls \ fails
    /\ Created.location = 1 /\ Venues = <<"hall">>
    /\ Created.tags = Len(Tags) /\ Tags = <<"bitplebs">>

\* the date text is Weekday, Month D, YYYY with one of the twelve month
\* names and a day that the month has in that year
WellFormedDate(d) ==
    /\ d.form = "strict"
    /\ \E i \in 1..12 : monthNames[i] = d.month
    /\ d.year >= 1000 /\ d.day >= 1
    /\ d.day <= (IF d.month \in {"April", "June", "September", "November"}
                 THEN 30
                 ELSE IF d.month # "February" THEN 31
                 ELSE IF d.year % 4 = 0 /\ (d.year % 100 # 0 \/ d.year % 400 = 0)
                      THEN 29 ELSE 28)

\* the time text is h:mm AM/PM, one of the three dashes, h:mm AM/PM
WellFormedRange(t) ==
    /\ t.kind = "range" /\ t.dash \in {"-", "U+2013", "U+2014"}
    /\ t.s.h \in 1..12 /\ t.s.m \in 0..59
    /\ t.e.h \in 1..12 /\ t.e.m \in 0..59

\* the hour of a time by the 12-hour rules
Hour24(c) ==
    IF c.ap \in {"AM", "am"} THEN (IF c.h = 12 THEN 0 ELSE c.h)
    ELSE (IF c.h = 12 THEN 12 ELSE c.h + 12)

\* the timestamp of a time of day on the date of the text
OnDate(d, c) ==
    Stamp(d.year,
          CHOOSE i \in 1..12 : monthNames[i] = d.month,
          d.day, Hour24(c), c.m)

\* the timestamps the claim prescribes for the texts
Prescribed ==
    [startDateTime |-> OnDate(dateStr, timeStr.s),
     endDateTime |-> OnDate(dateStr, timeStr.e)]

\* C23: for every well-formed date and time range the resolver returns the
\* start and end on that calendar date, the hours by the 12-hour rules, the
\* minutes unchanged; 'Monday, January 26, 2026' with '6:00 PM (em dash)
\* 10:00 PM EST' gives 2026-01-26T18:00:00 and 2026-01-26T22:00:00.
C23_CivilTimes ==
    (dpc \in {"check", "done"} /\ copy = Current /\ WellFormedDate(dateStr)
       /\ WellFormedRange(timeStr))
        => resolved = Prescribed

\* C23, the part that holds: when the two times are separated by a hyphen
\* and neither lies in the hour that the change to summer time leaves out,
\* the resolver returns the prescribed timestamps, whatever the season in
\* which it runs.
C23_WithHyphen ==
    (dpc \in {"check", "done"} /\ copy = Current /\ WellFormedDate(dateStr)
       /\ WellFormedRange(timeStr) /\ timeStr.dash = "-"
       /\ ~(dateStr.month = "March" /\ dateStr.day = 8
              /\ 2 \in {Hour24(timeStr.s), Hour24(timeStr.e)}))
        => resolved = Prescribed

\* C23: the texts of the claim's example, with the em dash, were not
\* resolved, and the item has failed on its date
C23_Witness ==
    /\ dpc = "done" /\ copy = Current
    /\ dateStr = [form |-> "strict", month |-> "January", day |-> 26,
                  year |-> 2026]
    /\ timeStr = [kind |-> "range", dash |-> "U+2014",
                  s |-> [h |-> 6, m |-> 0, sp |-> 1, ap |-> "PM"],
                  e |-> [h |-> 10, m |-> 0, sp |-> 1, ap |-> "PM"]]
    /\ resolved = Unresolved
    /\ dateResult = R("failed", "date_parse_error")

\* the same time text with a hyphen and one space before each marker
Canonical(t) == [t EXCEPT !.dash = "-", !.s.sp = 1, !.e.sp = 1]

\* C24: for a fixed date and fixed start and end times the resolver
\* returns the same whichever of hyphen, en dash and em dash separates the
\* times and whether or not a space precedes each AM/PM marker.
C24_FormatTolerance ==
    (dpc \in {"check", "done"} /\ copy = Current /\ timeStr.kind = "range"
       /\ timeStr.dash \in {"-", "U+2013", "U+2014"})
        => resolved = parseDateTime(dateStr, Canonical(timeStr), previousOffset)

\* C24, the part that holds: with a hyphen, the space before either marker
\* makes no difference.
C24_SpaceTolerance ==
    (dpc \in {"check", "done"} /\ copy = Current /\ timeStr.kind = "range"
       /\ timeStr.dash = "-")
        => resolved = parseDateTime(dateStr, Canonical(timeStr), previousOffset)

\* C24: a range written with the en dash was not resolved although the same
\* range written with a hyphen resolves
C24_Witness ==
    /\ dpc = "done" /\ copy = Current /\ timeStr.kind = "range" /\ timeStr.dash = "U+2013"
    /\ timeStr.s.sp = 0 /\ timeStr.e.sp = 1
    /\ resolved = Unresolved
    /\ parseDateTime(dateStr, Canonical(timeStr), previousOffset) # Unresolved

\* C25: the item ends failed/date_parse_error, and so is not created,
\* whenever a text is missing, the time text has no range, the date matches
\* neither pattern, the month is not one of the twelve names, or the month
\* does not have the day.
C25_DateFailures ==
    (dpc = "done" /\ copy = Current
       /\ \/ dateStr.form = "missing" \/ timeStr.kind # "range"
          \/ timeStr.dash \notin {"-", "U+2013", "U+2014"}
          \/ dateStr.form \notin {"strict", "noComma", "noWeekday"}
          \/ ~WellFormedDate([dateStr EXCEPT !.form = "strict"]))
        => (resolved = Unresolved
              /\ dateResult = R("failed", "date_parse_error"))

\* C25, the part that holds: every case of the claim but the day that the
\* month does not have.
C25_TextFailures ==
    (dpc = "done" /\ copy = Current
       /\ \/ dateStr.form = "missing" \/ timeStr.kind # "range"
          \/ timeStr.dash \notin {"-", "U+2013", "U+2014"}
          \/ dateStr.form \notin {"strict", "noComma", "noWeekday"}
          \/ \A i \in 1..12 : monthNames[i] # dateStr.month
          \/ dateStr.year < 1000)
        => (resolved = Unresolved
              /\ dateResult = R("failed", "date_parse_error"))

\* C25: February 30, 2026 was resolved, to March 2, and the item goes on
C25_Witness ==
    /\ dpc = "done" /\ copy = Current /\ dateResult = NoResult
    /\ dateStr.month = "February" /\ dateStr.day = 30 /\ dateStr.year = 2026
    /\ resolved.startDateTime.month = 3 /\ resolved.startDateTime.day = 2

\* a timestamp as a number that grows with time
Ordinal(st) ==
    (((st.year * 12 + st.month) * 31 + st.day) * 24 + st.hour) * 60 + st.minute

\* C29: an item that passes the date resolution (and so every Event that
\* is created) has an end timestamp that is not earlier than its start
\* timestamp.
C29_EndNotBeforeStart ==
    (dpc = "done" /\ copy = Current /\ dateResult = NoResult)
        => Ordinal(end_date_time) >= Ordinal(start_date_time)

\* C29: a range from 10:00 PM to 2:00 AM was resolved on one and the same
\* date, the end twenty hours before the start
C29_Witness ==
    /\ dpc = "done" /\ copy = Current /\ dateResult = NoResult
    /\ Hour24(timeStr.s) = 22 /\ Hour24(timeStr.e) = 2 /\ timeStr.s.m = 0
    /\ timeStr.e.m = 0
    /\ start_date_time.day = end_date_time.day
    /\ start_date_time.hour = 22 /\ end_date_time.hour = 2

\* C26: in every state the store reaches from the empty store, over the
\* runs and whichever calls fail, no two Venues and no two Tags have the
\* same name; a venue or tag create is pending or was sent only after the
\* lookup of that name was answered, not failed, with no record, and while
\* no record of that name is stored.
C26_OnePerName ==
    /\ \A i, j \in 1..Len(Venues) : Venues[i] = Venues[j] => i = j
    /\ \A i, j \in 1..Len(Tags) : Tags[i] = Tags[j] => i = j
    /\ (pc = "venue_c" \/ "venue_c" \in calls) => "venue_q" \in calls \ fails
    /\ (pc = "tag_c" \/ "tag_c" \in calls) => "tag_q" \in calls \ fails
    /\ pc = "venue_c" => Named(Venues, Item.venueName) = {}
    /\ pc = "tag_c" => Named(Tags, "bitplebs") = {}

\* C26: in a second run the venue and the tag an earlier run created were
\* looked up again, found, and not created again
C26_Witness ==
    /\ run = 2 /\ pc = "tally"
    /\ Venues = <<"hall">> /\ Tags = <<"bitplebs">>
    /\ {"venue_q", "tag_q"} \subseteq calls \ fails
    /\ {"venue_c", "tag_c"} \cap calls = {}
    /\ venueId = 1 /\ tagId = 1

\* the requests that add or change a record of the store when they succeed
Writes == {"upload", "venue_c", "tag_c", "patch", "create"}

\* C27: when an item ends skipped or failed, none of its requests has added
\* or changed a file, venue, tag or event record: the store is as it was
\* when the item started.
C27_NoEffectUnlessStored ==
    (pc = "tally" /\ result.status \in {"skipped", "failed"})
        => /\ calls \cap Writes \subseteq fails
           /\ imageId = NoId
           /\ \A i \in 1..Len(Files) :
                \/ \E e \in 1..Len(Events) : Events[e].image = i
                \/ Files[i] # Item.imageUrl

\* C27, the part that holds: an item that ends on its content, its date or
\* the past check, or as already_exists with nothing to add, has sent no
\* request that writes.
C27_EarlyOutcomes ==
    (pc = "tally" /\ (result.reason \in {"parse_error", "date_parse_error",
                                         "past_event"}
                        \/ (result.reason = "already_exists"
                              /\ calls \subseteq {"scrape", "exists"})))
        => calls \cap Writes = {}

\* C27: the image of an item was uploaded and its venue created, then the
\* Event create was rejected: the item has failed, the file and the venue
\* are in the store and no Event refers to them
C27_Witness ==
    /\ pc = "tally" /\ result = R("failed", "create_error")
    /\ Events = <<>>
    /\ imageId = 1 /\ Files = <<Item.imageUrl>>
    /\ venueId = 1 /\ Venues = <<Item.venueName>>

\* the number of outcomes of one status that the run has on its way to the
\* overall results: those added already, those of the feed being processed
\* and the one of the item that has just ended
Tallied(status) ==
    overall[status]
      + (IF pc \in {"idle", "exited", "parseURL", "summary"} THEN 0
         ELSE results[status])
      + (IF pc = "tally" /\ result.status = status THEN 1 ELSE 0)

\* C28: from the start of a run to its summary the created count follows
\* the Event records added to the store and the updated count the Event
\* updates that succeeded: a step adds to a count exactly what it adds to
\* the store, so that the overall counts at the summary are those numbers,
\* in the first run the number of Events in the store.
C28_CountsMatchStore ==
    [][ /\ run' = run
          => /\ Tallied("created")' - Tallied("created")
                  = Len(Events') - Len(Events)
             /\ Tallied("updated")' - Tallied("updated")
                  = IF pc = "patch" /\ "patch" \notin fails' THEN 1 ELSE 0
        /\ (pc' = "summary" /\ run' = 1)
             => overall'.created = Len(Events') ]_vars

\* C28, the part that holds: in a run no feed of which was ended by an
\* exception the counts follow the store
C28_UnlessAborted ==
    [][ (run' = run /\ abortedFeeds' = {})
          => /\ Tallied("created")' - Tallied("created")
                  = Len(Events') - Len(Events)
             /\ Tallied("updated")' - Tallied("updated")
                  = IF pc = "patch" /\ "patch" \notin fails' THEN 1 ELSE 0
             /\ (pc' = "summary" /\ run' = 1)
                  => overall'.created = Len(Events') ]_vars

\* C28: the first item of a feed was created, the second has no
\* content:encoded; the run has ended with an Event in the store that the
\* overall created count does not have
C28_Witness ==
    /\ pc = "summary" /\ run = 1
    /\ 1 \in abortedFeeds /\ Len(feeds[1]) = 3
    /\ Len(Events) > overall.created

\* C30: a result a read function returns has exactly one of data and error
\* non-null, whether the URL is missing, the request timed out, failed, or
\* was answered with no rows or with rows; without a configured URL the
\* result is CMS_NOT_CONFIGURED and no request is made.
C30_OneOfDataAndError ==
    /\ cpc = "returned"
         => (cmsResult.data.kind # "null") # (cmsResult.error # Null)
    /\ (cpc # "idle" /\ getConfiguredDirectusUrl(cmsEnv) = Null)
         => /\ cpc = "returned"
            /\ cmsResult = Fail("CMS_NOT_CONFIGURED")
            /\ requests = 0
    /\ cpc \in {"await", "threw"} => requests > 0

\* C30: the outcomes of the functions, by the way their request ended
C30_Outcomes ==
    cpc = "returned"
      => /\ cmsResult.error \in {Null, "CMS_NOT_CONFIGURED", "CMS_UNAVAILABLE",
                                 "NOT_FOUND", "UNKNOWN"}
         /\ cmsResult.error = "CMS_NOT_CONFIGURED" <=> requests = 0
         /\ cmsResult.error = "NOT_FOUND"
              => fn \in {"getPageData", "getPostData", "getEventBySlugAndTag",
                         "getEventByIdAndTag", "getPodcastEpisodeBySlug"}
         /\ cmsResult.data.kind = "array"
              <=> (cmsResult.error = Null
                     /\ fn \in {"getEvents", "getEventsByTag", "getBooks",
                                "getMeetups", "getPodcastEpisodes"})

\* C30: getEventBySlugAndTag was called with a configured URL, no tag of the
\* name was found; it has returned NOT_FOUND from the empty array of
\* getEventsByTag, after one request
C30_Witness ==
    /\ cpc = "returned" /\ fn = "getEventBySlugAndTag"
    /\ cmsEnv.SSR /\ cmsEnv.DIRECTUS_URL = "http://directus:8055"
    /\ cmsEnv.PUBLIC_DIRECTUS_URL = Null
    /\ requests = 1 /\ pending = "tags"
    /\ cmsResult = Fail("NOT_FOUND")

\* C30: on the server the public URL is set and DIRECTUS_URL is blank; the
\* call has returned without a request
C30_Unconfigured ==
    /\ cpc = "returned" /\ fn = "getEvents"
    /\ cmsEnv.SSR /\ cmsEnv.DIRECTUS_URL = " "
    /\ cmsEnv.PUBLIC_DIRECTUS_URL = "http://directus:8055"
    /\ cmsResult = Fail("CMS_NOT_CONFIGURED") /\ requests = 0

\* C30: a row without title made generateSlug throw in getEventBySlugAndTag
C30_Threw ==
    cpc = "threw" /\ requests = 2

\* C30: the slug of both titled rows is that of the call: the first row of
\* the answer is the one returned
C30_Found ==
    /\ cpc = "returned" /\ fn = "getPodcastEpisodeBySlug"
    /\ generateSlug(Plain.title) = slug /\ generateSlug(Dashed.title) = slug
    /\ cmsResult = OneRow(Dashed)

\* the earlier file of the importer, src/scripts/import-rss-events.js: a
\* time without a space before its marker is not resolved; a date that
\* Date's parser reads is resolved also when it is numeric or its month is
\* abbreviated; on a machine in New York the texts of a hyphen range on a
\* winter date give the prescribed timestamps, on a machine on UTC five
\* hours more
EarlierResolver ==
    (dpc \in {"check", "done"} /\ copy = Earlier /\ timeStr.kind = "range"
       /\ timeStr.dash = "-")
        => /\ (timeStr.s.sp = 0 \/ timeStr.e.sp = 0) => resolved = Unresolved
           /\ (timeStr.s.sp = 1 /\ timeStr.e.sp = 1
                 /\ dateStr.month \in {"January", "Jan", "january"}
                 /\ dateStr.day = 26)
                => /\ resolved # Unresolved
                   /\ zone = "America/New_York"
                        => /\ resolved.startDateTime
                                = Stamp(2026, 1, 26, Hour24(timeStr.s),
                                        timeStr.s.m)
                           /\ resolved.endDateTime
                                = Stamp(2026, 1, 26, Hour24(timeStr.e),
                                        timeStr.e.m)
                   /\ zone = "UTC"
                        => Ordinal(resolved.startDateTime)
                             = Ordinal(Stamp(2026, 1, 26, Hour24(timeStr.s),
                                             timeStr.s.m)) + 300

\* the earlier file on a machine in New York: 2:00 PM on March 8, 2026 is
\* resolved to 15:00
EarlierSummer ==
    /\ dpc = "done" /\ copy = Earlier /\ zone = "America/New_York"
    /\ dateStr.month = "March" /\ timeStr.kind = "range"
    /\ timeStr.s = [h |-> 2, m |-> 0, sp |-> 1, ap |-> "PM"]
    /\ resolved.startDateTime = Stamp(2026, 3, 8, 15, 0)

\* the earlier file on a machine on UTC: 10:00 PM on the numeric date
\* 1/26/2026 is resolved to 03:00 of the next day
EarlierNumeric ==
    /\ dpc = "done" /\ copy = Earlier /\ zone = "UTC"
    /\ dateStr.form = "numeric" /\ timeStr.kind = "range"
    /\ timeStr.s = [h |-> 6, m |-> 0, sp |-> 1, ap |-> "PM"]
    /\ timeStr.e = [h |-> 10, m |-> 0, sp |-> 1, ap |-> "PM"]
    /\ resolved = [startDateTime |-> Stamp(2026, 1, 26, 23, 0),
                   endDateTime |-> Stamp(2026, 1, 27, 3, 0)]

====
